---- MODULE Spec2Model ----
(***************************************************************************)
(* A model of the container data model of astrodata/fits.py:               *)
(*   FitsHeaderCollection   batched keyword access over header records     *)
(*   FitsProvider           the ordered units, the tables, crop            *)
(*   FitsProviderProxy      an index-list view on a provider               *)
(* Python values are modelled as follows: None is the empty sequence and   *)
(* a present value x is <<x>>; a dict is a sequence of [name, obj] entries *)
(* in insertion order, or a function when its order is never observed; an  *)
(* exception is the name of its class in last.exc ("" when none).          *)
(***************************************************************************)
EXTENDS Integers, Sequences, FiniteSets, TLC

VARIABLES
    nddata,     \* FitsProvider._nddata: the ordered units
    tables,     \* FitsProvider._tables: container-level tables by name
    provDict,   \* FitsProvider.__dict__: the provider's public attributes
    exposed,    \* FitsProvider._exposed: the names announced as attributes
    proxy,      \* the FitsProviderProxy under observation (live or not)
    store,      \* the header records, owned by whoever supplied them
    coll,       \* FitsHeaderCollection.__headers: references into store
    hdulist,    \* the container: the raw extensions read and written
    logger,     \* astropy's logger: its level and the configured level
    last        \* the last operation: its name, arguments, result, exception

vars == <<nddata, tables, provDict, exposed, proxy, store, coll, hdulist, logger, last>>

----------------------------------------------------------------------------
(* Bounds of the model.                                                    *)

MaxUnits == 3
MaxVer == 3
MaxRecs == 2

----------------------------------------------------------------------------
(* Python values.                                                          *)

None == <<>>
Some(x) == <<x>>
IsNone(o) == o = <<>>
The(o) == o[1]

Range(s) == {s[i] : i \in 1..Len(s)}

Max(a, b) == IF a >= b THEN a ELSE b
Min(a, b) == IF a <= b THEN a ELSE b

RECURSIVE MaxOf(_)
MaxOf(S) == IF S = {} THEN 0
            ELSE LET x == CHOOSE y \in S : TRUE
                 IN Max(x, MaxOf(S \ {x}))

DEFAULT_EXTENSION == "SCI"

\* A dict whose order is never observed: a function on its keys.
EmptyDict == [n \in {} |-> None]
DictSet(d, n, o) == [x \in (DOMAIN d) \cup {n} |-> IF x = n THEN o ELSE d[x]]
DictDel(d, n) == [x \in (DOMAIN d) \ {n} |-> d[x]]

\* An ordered dict (meta['other']): entries [name, obj] in insertion order.
OHas(d, n) == \E i \in 1..Len(d) : d[i].name = n
OGet(d, n) == d[CHOOSE i \in 1..Len(d) : d[i].name = n].obj
OSet(d, n, o) ==
    IF OHas(d, n)
    THEN [i \in 1..Len(d) |-> IF d[i].name = n THEN [name |-> n, obj |-> o] ELSE d[i]]
    ELSE Append(d, [name |-> n, obj |-> o])
ODel(d, n) == SelectSeq(d, LAMBDA e : e.name # n)

\* A 2-D array is a window on a base pixel grid: rows y0..y0+h-1 and columns
\* x0..x0+w-1 of the base, so that two windows are equal exactly when they
\* hold the same pixels.
Win(y0, x0, h, w) == [y0 |-> y0, x0 |-> x0, h |-> h, w |-> w]
Shape(a) == <<a.h, a.w>>

\* astropy's logger: the level of astropy.log and the configured level
\* astropy.logger.conf.log_level.
Logger(level, conf) == [level |-> level, conf |-> conf]
DefaultLogger == Logger("INFO", "INFO")

\* The result record of an operation.
Op(name, arg, pre, res, exc) ==
    [op |-> name, arg |-> arg, pre |-> pre, res |-> res, exc |-> exc]

NoOp == Op("init", None, None, None, "")

----------------------------------------------------------------------------
(* Index normalisation (astrodata.utils.normalize_indices) and Python's    *)
(* slice arithmetic.                                                       *)

\* A selector is an integer index or a slice with optional start/stop/step.
IntSel(i) == [kind |-> "int", i |-> i, start |-> None, stop |-> None, step |-> None]
SliceSel(a, b, c) == [kind |-> "slice", i |-> 0, start |-> a, stop |-> b, step |-> c]

\* slice.indices(n): the clamped (start, stop, step) of a slice on n items.
SliceIndices(s, n) ==
    LET step == IF IsNone(s.step) THEN 1 ELSE The(s.step)
        lower == IF step < 0 THEN -1 ELSE 0
        upper == IF step < 0 THEN n - 1 ELSE n
        clamp(v) == IF v < 0 THEN Max(v + n, lower) ELSE Min(v, upper)
        start == IF IsNone(s.start)
                 THEN (IF step < 0 THEN upper ELSE lower)
                 ELSE clamp(The(s.start))
        stop == IF IsNone(s.stop)
                THEN (IF step < 0 THEN lower ELSE upper)
                ELSE clamp(The(s.stop))
    IN <<start, stop, step>>

\* list(range(start, stop, step)) as a sequence.
PyRange(start, stop, step) ==
    LET n == IF step > 0
             THEN (IF start < stop THEN ((stop - start - 1) \div step) + 1 ELSE 0)
             ELSE (IF start > stop THEN ((start - stop - 1) \div (-step)) + 1 ELSE 0)
    IN [k \in 1..n |-> start + (k - 1) * step]

\* range(n)[s] for a slice s, as a sequence of indices.
RangeSlice(n, s) ==
    LET t == SliceIndices(s, n) IN PyRange(t[1], t[2], t[3])

\* normalize_indices(slc, nitems): the indices and whether the selector
\* designates several items; IndexError for an integer out of range.
NormalizeIndices(slc, nitems) ==
    IF slc.kind = "slice"
    THEN [indices |-> RangeSlice(nitems, slc), multiple |-> TRUE, exc |-> ""]
    ELSE IF slc.i >= nitems \/ slc.i < -nitems
         THEN [indices |-> <<>>, multiple |-> FALSE, exc |-> "IndexError"]
         ELSE [indices |-> <<IF slc.i >= 0 THEN slc.i ELSE nitems + slc.i>>,
               multiple |-> FALSE, exc |-> ""]

----------------------------------------------------------------------------
(* The proxy object.                                                       *)

\* FitsProviderProxy(provider, indices, single): a fresh view; its own
\* attribute dictionary holds nothing public yet.
NewProxy(indices, single) ==
    [live |-> TRUE, mapping |-> indices, single |-> single, dict |-> EmptyDict]

NoProxy == [live |-> FALSE, mapping |-> <<>>, single |-> FALSE, dict |-> EmptyDict]

\* FitsProvider._slice
ProviderSlice(indices, multi) == NewProxy(indices, ~multi)

\* len(proxy)
ProxyLen(p) == Len(p.mapping)

\* FitsProviderProxy.__iter__: the views a proxy yields, in order.
ProxyIter(p) ==
    IF p.single THEN <<p>>
    ELSE [k \in 1..Len(p.mapping) |-> ProviderSlice(<<p.mapping[k]>>, FALSE)]

\* The unit at provider index n (0-based).
UnitAt(n) == nddata[n + 1]

----------------------------------------------------------------------------
(* Provider operations on the unit sequence.                               *)

Unit(name, ver, data, unc, mask, other) ==
    [name |-> name, ver |-> ver, data |-> data, uncertainty |-> unc,
     mask |-> mask, other |-> other]

UnitArray == Win(0, 0, 1, 1)

\* Mutant of ResetVer: the unit count instead of the highest version.
ResetVerByCount(name) ==
    Cardinality({j \in 1..Len(nddata) : nddata[j].name = name}) + 1

\* The version an appended unit gets when none is given.
ResetVer(name) ==
    MaxOf({nddata[k].ver : k \in {j \in 1..Len(nddata) : nddata[j].name = name}}) + 1

\* append(array, name) with no version and no add_to: a new unit.
ProviderAppend(name) ==
    /\ Len(nddata) < MaxUnits
    /\ ResetVer(name) <= MaxVer
    /\ LET u == Unit(name, ResetVer(name), UnitArray, None, None, <<>>)
       IN /\ nddata' = Append(nddata, u)
          /\ last' = Op("append", name, nddata, u, "")
    /\ UNCHANGED <<tables, provDict, exposed, proxy, store, coll, hdulist, logger>>

\* The sequence without its element at 0-based index n.
Without(seq, n) ==
    [k \in 1..(Len(seq) - 1) |-> IF k <= n THEN seq[k] ELSE seq[k + 1]]

\* FitsProvider.__delitem__
DelItem(idx) ==
    /\ idx \in 0..(Len(nddata) - 1)
    /\ nddata' = Without(nddata, idx)
    /\ last' = Op("delitem", idx, nddata, None, "")
    /\ UNCHANGED <<tables, provDict, exposed, proxy, store, coll, hdulist, logger>>

----------------------------------------------------------------------------
(* Slicing.                                                                *)

\* The selectors tried: every index in and out of range, and slices with
\* absent, negative, in-range and out-of-range bounds and steps 1, 2, -1.
SelBounds == {None, Some(-1), Some(1), Some(2), Some(MaxUnits + 1)}
SelSteps == {None, Some(2), Some(-1)}
Selectors ==
    {IntSel(i) : i \in (-MaxUnits - 1)..MaxUnits}
    \cup {SliceSel(a, b, c) : a \in SelBounds, b \in SelBounds, c \in SelSteps}

\* Mutant of ProviderGetItemResult: normalises against one item too many.
ProviderGetItemOffByOne(slc) ==
    LET r == NormalizeIndices(slc, Len(nddata) + 1)
    IN IF r.exc # "" THEN [exc |-> r.exc, view |-> NoProxy]
       ELSE [exc |-> "", view |-> ProviderSlice(r.indices, r.multiple)]

\* FitsProvider.__getitem__
ProviderGetItemResult(slc) ==
    LET nitems == Len(nddata)
        r == NormalizeIndices(slc, nitems)
    IN IF r.exc # "" THEN [exc |-> r.exc, view |-> NoProxy]
       ELSE [exc |-> "", view |-> ProviderSlice(r.indices, r.multiple)]

ProviderGetItem(slc) ==
    LET r == ProviderGetItemResult(slc)
    IN /\ proxy' = IF r.exc = "" THEN r.view ELSE proxy
       /\ last' = Op("getitem", slc, None, None, r.exc)
       /\ UNCHANGED <<nddata, tables, provDict, exposed, store, coll, hdulist, logger>>

\* Mutant of ProxyGetItemResult: the normalised indices are used as provider
\* indices, without going through the view's own index list.
ProxyGetItemUnmapped(p, slc) ==
    IF p.single THEN [exc |-> "TypeError", view |-> NoProxy]
    ELSE LET r == NormalizeIndices(slc, ProxyLen(p))
         IN IF r.exc # "" THEN [exc |-> r.exc, view |-> NoProxy]
            ELSE [exc |-> "", view |-> ProviderSlice(r.indices, r.multiple)]

\* FitsProviderProxy.__getitem__
ProxyGetItemResult(p, slc) ==
    IF p.single THEN [exc |-> "TypeError", view |-> NoProxy]
    ELSE LET r == NormalizeIndices(slc, ProxyLen(p))
         IN IF r.exc # "" THEN [exc |-> r.exc, view |-> NoProxy]
            ELSE LET mapped_indices ==
                         [k \in 1..Len(r.indices) |-> p.mapping[r.indices[k] + 1]]
                 IN [exc |-> "", view |-> ProviderSlice(mapped_indices, r.multiple)]

ProxyGetItem(slc) ==
    /\ proxy.live
    /\ LET r == ProxyGetItemResult(proxy, slc)
       IN /\ proxy' = IF r.exc = "" THEN r.view ELSE proxy
          /\ last' = Op("proxy_getitem", slc, proxy, None, r.exc)
    /\ UNCHANGED <<nddata, tables, provDict, exposed, store, coll, hdulist, logger>>

\* Mutant of ProxyDelItemResult: the deletion is forwarded to the provider.
ProxyDelItemForwarded(p, idx) ==
    IF idx \in 1..Len(p.mapping) /\ p.mapping[idx] < Len(nddata)
    THEN [exc |-> "", nddata |-> Without(nddata, p.mapping[idx])]
    ELSE [exc |-> "IndexError", nddata |-> nddata]

\* FitsProviderProxy.__delitem__: the exception and the unit sequence after.
ProxyDelItemResult(p, idx) == [exc |-> "TypeError", nddata |-> nddata]

ProxyDelItem(idx) ==
    /\ proxy.live
    /\ LET r == ProxyDelItemResult(proxy, idx)
       IN /\ nddata' = r.nddata
          /\ last' = Op("proxy_delitem", idx, nddata, None, r.exc)
    /\ UNCHANGED <<tables, provDict, exposed, proxy, store, coll, hdulist, logger>>

----------------------------------------------------------------------------
(* The provider with its views: append, delete, slice.                     *)

InitCommon ==
    /\ tables = EmptyDict
    /\ provDict = EmptyDict
    /\ exposed = {}
    /\ proxy = NoProxy
    /\ store = <<>>
    /\ coll = <<>>
    /\ hdulist = <<>>
    /\ logger = DefaultLogger
    /\ last = NoOp

InitSlice ==
    /\ nddata = <<>>
    /\ InitCommon

NextSlice ==
    \/ ProviderAppend(DEFAULT_EXTENSION)
    \/ \E idx \in 0..(MaxUnits - 1) : DelItem(idx)
    \/ \E slc \in Selectors : ProviderGetItem(slc)
    \/ \E slc \in Selectors : ProxyGetItem(slc)
    \/ \E idx \in (-1)..(MaxUnits - 1) : ProxyDelItem(idx)

SpecSlice == InitSlice /\ [][NextSlice]_vars

\* C1: for a provider of N units and a valid slice s, len(p[s]) is
\* len(range(N)[s]) and iterating p[s] yields single-unit views on exactly
\* the provider indices range(N)[s], in order; [1:] on 3 units gives units 1
\* and 2, [1:] on 1 unit gives an empty view.
C1_SliceYieldsRange ==
    (last.op = "getitem" /\ last.exc = "" /\ last.arg.kind = "slice") =>
        LET N == Len(nddata)
            expected == RangeSlice(N, last.arg)
            it == ProxyIter(proxy)
        IN /\ ~proxy.single
           /\ ProxyLen(proxy) = Len(expected)
           /\ Len(it) = Len(expected)
           /\ \A k \in 1..Len(it) :
                 /\ it[k].single
                 /\ it[k].mapping = <<expected[k]>>
                 /\ expected[k] \in 0..(N - 1)
                 /\ UnitAt(it[k].mapping[1]) = nddata[expected[k] + 1]
           /\ (last.arg = SliceSel(Some(1), None, None) /\ N = 3)
                 => proxy.mapping = <<1, 2>>
           /\ (last.arg = SliceSel(Some(1), None, None) /\ N = 1)
                 => proxy.mapping = <<>>
           /\ (last.arg = SliceSel(None, None, Some(-1)) /\ N = 3)
                 => proxy.mapping = <<2, 1, 0>>

C1_Witness ==
    /\ last.op = "getitem" /\ last.exc = ""
    /\ last.arg = SliceSel(Some(1), None, None)
    /\ Len(nddata) = 3
    /\ [k \in 1..2 |-> UnitAt(ProxyIter(proxy)[k].mapping[1]).ver] = <<2, 3>>

\* C2: slicing a multi-view with index list M selects from M: the new index
\* list is [M[i] for i in range(len(M))[s]]; slicing a single view raises
\* TypeError (and yields no view).
C2_SliceComposes ==
    (last.op = "proxy_getitem") =>
        LET p == last.pre
            M == p.mapping
            s == last.arg
        IN IF p.single
           THEN last.exc = "TypeError" /\ proxy = p
           ELSE (last.exc = "") =>
                  /\ Range(proxy.mapping) \subseteq Range(M)
                  /\ IF s.kind = "slice"
                     THEN LET e == RangeSlice(Len(M), s)
                          IN /\ ~proxy.single
                             /\ proxy.mapping = [k \in 1..Len(e) |-> M[e[k] + 1]]
                     ELSE /\ proxy.single
                          /\ proxy.mapping =
                               <<M[(IF s.i >= 0 THEN s.i ELSE Len(M) + s.i) + 1]>>

C2_Witness ==
    /\ last.op = "proxy_getitem" /\ last.exc = ""
    /\ last.pre.mapping = <<1, 2>>
    /\ last.arg = SliceSel(None, Some(1), None)
    /\ proxy.mapping = <<1>>

\* C3: del proxy[idx] raises TypeError for every view and every index, and
\* leaves the provider's unit sequence as it was.
C3_ProxyDelFails ==
    (last.op = "proxy_delitem") => (last.exc = "TypeError" /\ nddata = last.pre)

C3_Witness ==
    /\ last.op = "proxy_delitem" /\ last.exc = "TypeError"
    /\ last.arg = 1
    /\ proxy.mapping = <<0, 1>>
    /\ Len(nddata) = 2

----------------------------------------------------------------------------
(* Appending and deleting units.                                           *)

UnitNames == {DEFAULT_EXTENSION, "REF"}

InitAppend ==
    /\ nddata = <<>>
    /\ InitCommon

NextAppend ==
    \/ \E name \in UnitNames : ProviderAppend(name)
    \/ \E idx \in 0..(MaxUnits - 1) : DelItem(idx)

SpecAppend == InitAppend /\ [][NextAppend]_vars

VersionsOf(units, name) ==
    {units[k].ver : k \in {j \in 1..Len(units) : units[j].name = name}}

\* C6: after any appends without a version and any deletions, a new unit
\* gets the highest version of its name plus one (1 when there is none), so
\* the (name, version) pairs of the units are pairwise distinct; two appends
\* of SCI on an empty provider give versions 1 then 2.
C6_AutoVersionUnique ==
    /\ \A i, j \in 1..Len(nddata) :
          (i # j) => <<nddata[i].name, nddata[i].ver>> # <<nddata[j].name, nddata[j].ver>>
    /\ (last.op = "append") =>
          /\ nddata = Append(last.pre, last.res)
          /\ last.res.name = last.arg
          /\ \A v \in VersionsOf(last.pre, last.arg) : last.res.ver > v
          /\ (VersionsOf(last.pre, last.arg) = {}) => last.res.ver = 1
          /\ (VersionsOf(last.pre, last.arg) # {}) =>
                (last.res.ver - 1) \in VersionsOf(last.pre, last.arg)
    /\ (/\ last.op = "append" /\ last.arg = DEFAULT_EXTENSION
        /\ Len(last.pre) = 1 /\ last.pre[1].name = DEFAULT_EXTENSION
        /\ last.pre[1].ver = 1)
          => [k \in 1..2 |-> <<nddata[k].name, nddata[k].ver>>]
               = <<(<<DEFAULT_EXTENSION, 1>>), (<<DEFAULT_EXTENSION, 2>>)>>

\* A unit appended after a deletion left a gap below the highest version.
C6_Witness ==
    /\ last.op = "append" /\ last.arg = DEFAULT_EXTENSION
    /\ VersionsOf(last.pre, DEFAULT_EXTENSION) = {2}
    /\ Len(nddata) = 2
    /\ nddata[2].ver = 3

----------------------------------------------------------------------------
(* Attribute access on the provider and through a view.                    *)

UpperNames == {"REF", "CAT"}
LowerNames == {"data", "comment"}
AttrNames == UpperNames \cup LowerNames

\* str.isupper() on the attribute names of the model.
IsUpper(a) == a \in UpperNames

\* The objects attributes hold: a table (no shape), an array, an array-like
\* unit, or a plain value.
Obj(kind, val, arr) == [kind |-> kind, val |-> val, arr |-> arr]
TableObj(v) == Obj("table", v, None)
ArrayObj(v, a) == Obj("ndarray", v, Some(a))
NDObj(v, a) == Obj("nddata", v, Some(a))
ValueObj(v) == Obj("value", v, None)

\* The outcome of an attribute lookup: where it was found, what, or the
\* exception raised.
Got(src, obj) == [src |-> src, obj |-> obj, exc |-> ""]
Raised(exc) == [src |-> "none", obj |-> None, exc |-> exc]

\* FitsProvider.is_settable: the fixed settable names and every uppercase one.
FixedSettable == {"data"}
IsSettable(a) == a \in FixedSettable \/ IsUpper(a)

\* The first unit among the given provider indices whose name is the
\* attribute (the alias loop of _getattr_impl).
AliasHit(a, indices) ==
    LET hits == {k \in 1..Len(indices) : UnitAt(indices[k]).name = a}
    IN IF hits = {} THEN Raised("AttributeError")
       ELSE Got("unit", indices[CHOOSE k \in hits : \A j \in hits : k <= j])

AllIndices == [k \in 1..Len(nddata) |-> k - 1]

\* getattr(provider, attribute): the instance dictionary first, then
\* FitsProvider.__getattr__, which asks _getattr_impl over all units; an
\* exposed name that is not in the dictionary sends _getattr_impl back to
\* getattr(self, attribute), and the lookup never returns.
ProviderGetattr(a) ==
    IF a \in DOMAIN provDict THEN Got("provider", provDict[a])
    ELSE IF a \in exposed THEN Raised("RecursionError")
    ELSE AliasHit(a, AllIndices)

\* FitsProvider._getattr_impl(attribute, nds), nds the units at `indices`.
GetattrImpl(a, indices) ==
    IF a \in exposed THEN ProviderGetattr(a) ELSE AliasHit(a, indices)

MappingInRange(p) == \A k \in 1..Len(p.mapping) : p.mapping[k] \in 0..(Len(nddata) - 1)

\* FitsProviderProxy.__getattr__, reached when the view's own dictionary does
\* not hold the name.
ProxyGetAttrResult(p, a) ==
    IF a \in DOMAIN p.dict THEN Got("proxy", p.dict[a])
    ELSE IF ~MappingInRange(p) THEN Raised("IndexError")
    ELSE LET r1 == GetattrImpl(a, p.mapping)
             r2 == IF r1.exc = "AttributeError" THEN ProviderGetattr(a) ELSE r1
         IN IF r2.exc # "AttributeError" THEN r2
            ELSE IF p.single /\ IsUpper(a) /\ OHas(UnitAt(p.mapping[1]).other, a)
                 THEN Got("aux", OGet(UnitAt(p.mapping[1]).other, a))
                 ELSE Raised("AttributeError")

\* The provider's state an attribute operation may change.
Snapshot == [nddata |-> nddata, tables |-> tables, provDict |-> provDict,
             exposed |-> exposed, proxy |-> proxy]

ProxyGetAttr(a) ==
    /\ proxy.live
    /\ LET r == ProxyGetAttrResult(proxy, a)
       IN last' = Op("proxy_getattr", [name |-> a, value |-> None], None, r, r.exc)
    /\ UNCHANGED <<nddata, tables, provDict, exposed, proxy, store, coll, hdulist, logger>>

\* append(value, name, add_to=None) of a table: a container-level table.
AppendTable(st, name, value) ==
    [st EXCEPT !.tables = DictSet(st.tables, name, value),
               !.provDict = DictSet(st.provDict, name, value),
               !.exposed = st.exposed \cup {name}]

\* append(value, name, add_to=unit): VAR is the unit's uncertainty, DQ its
\* mask, any other name an auxiliary object of the unit.
AppendAddTo(st, name, value, n) ==
    [st EXCEPT !.nddata[n + 1] =
        IF name = "VAR" THEN [@ EXCEPT !.uncertainty = value.arr]
        ELSE IF name = "DQ" THEN [@ EXCEPT !.mask = value.arr]
        ELSE [@ EXCEPT !.other = OSet(@, name, value)]]

\* FitsProvider.__setattr__ outside construction (_resetting is False).
ProviderSetattrResult(st, a, value) ==
    IF (a \notin DOMAIN st.provDict \/ a \in st.exposed) /\ IsUpper(a)
    THEN AppendTable(st, a, value)
    ELSE [st EXCEPT !.provDict = DictSet(st.provDict, a, value)]

ProviderSetAttr(a, value) ==
    /\ LET st == ProviderSetattrResult(Snapshot, a, value)
       IN /\ tables' = st.tables
          /\ provDict' = st.provDict
          /\ exposed' = st.exposed
          /\ last' = Op("setattr", [name |-> a, value |-> value], None, None, "")
    /\ UNCHANGED <<nddata, proxy, store, coll, hdulist, logger>>

\* Mutant of ProviderDelattrResult: the table is removed from the table
\* mapping only, and a name that is no table is passed over in silence.
ProviderDelattrTablesOnly(st, a) ==
    IF ~IsUpper(a) THEN [st |-> st, exc |-> "ValueError"]
    ELSE [st |-> [st EXCEPT !.tables = DictDel(st.tables, a)], exc |-> ""]

\* FitsProvider.__delattr__: the state after, and the exception.
ProviderDelattrResult(st, a) ==
    IF ~IsUpper(a) THEN [st |-> st, exc |-> "ValueError"]
    ELSE IF a \notin DOMAIN st.tables THEN [st |-> st, exc |-> "AttributeError"]
    ELSE LET st1 == [st EXCEPT !.tables = DictDel(st.tables, a)]
         IN IF a \notin DOMAIN st.provDict THEN [st |-> st1, exc |-> "AttributeError"]
            ELSE [st |-> [st1 EXCEPT !.provDict = DictDel(st.provDict, a)], exc |-> ""]

ProviderDelAttr(a) ==
    /\ LET r == ProviderDelattrResult(Snapshot, a)
       IN /\ tables' = r.st.tables
          /\ provDict' = r.st.provDict
          /\ last' = Op("delattr", [name |-> a, value |-> None], None, None, r.exc)
    /\ UNCHANGED <<nddata, exposed, proxy, store, coll, hdulist, logger>>

\* FitsProviderProxy.__setattr__: the state after, and the exception.  A
\* settable non-uppercase name is set on the provider and then, as the branch
\* does not return, on the view itself.
ProxySetattrResult(st, a, value) ==
    LET p == st.proxy
        my_attribute == a \in DOMAIN p.dict
        own(s) == [s EXCEPT !.proxy.dict = DictSet(p.dict, a, value)]
    IN IF ~my_attribute /\ IsSettable(a)
       THEN IF IsUpper(a)
            THEN IF ~p.single THEN [st |-> st, exc |-> "TypeError"]
                 ELSE IF ~MappingInRange(p) THEN [st |-> st, exc |-> "IndexError"]
                 ELSE [st |-> AppendAddTo(st, a, value, p.mapping[1]), exc |-> ""]
            ELSE IF a \in {"path", "filename"}
                 THEN [st |-> st, exc |-> "AttributeError"]
                 ELSE [st |-> own(ProviderSetattrResult(st, a, value)), exc |-> ""]
       ELSE [st |-> own(st), exc |-> ""]

ProxySetAttr(a, value) ==
    /\ proxy.live
    /\ LET r == ProxySetattrResult(Snapshot, a, value)
       IN /\ nddata' = r.st.nddata
          /\ tables' = r.st.tables
          /\ provDict' = r.st.provDict
          /\ exposed' = r.st.exposed
          /\ proxy' = r.st.proxy
          /\ last' = Op("proxy_setattr", [name |-> a, value |-> value],
                        None, None, r.exc)
    /\ UNCHANGED <<store, coll, hdulist, logger>>

\* FitsProviderProxy.__delattr__: the state after, and the exception.
ProxyDelattrResult(st, a) ==
    LET p == st.proxy
    IN IF ~IsUpper(a) THEN [st |-> st, exc |-> "ValueError"]
       ELSE IF ~p.single THEN [st |-> st, exc |-> "TypeError"]
       ELSE IF ~MappingInRange(p) THEN [st |-> st, exc |-> "IndexError"]
       ELSE LET n == p.mapping[1]
                other == st.nddata[n + 1].other
            IN IF OHas(other, a)
               THEN [st |-> [st EXCEPT !.nddata[n + 1].other = ODel(other, a)],
                     exc |-> ""]
               ELSE [st |-> st, exc |-> "AttributeError"]

ProxyDelAttr(a) ==
    /\ proxy.live
    /\ LET r == ProxyDelattrResult(Snapshot, a)
       IN /\ nddata' = r.st.nddata
          /\ tables' = r.st.tables
          /\ provDict' = r.st.provDict
          /\ last' = Op("proxy_delattr", [name |-> a, value |-> None], None, None, r.exc)
    /\ UNCHANGED <<exposed, proxy, store, coll, hdulist, logger>>

\* The values assigned: a table on the provider, an array on a unit, plain
\* values for the other names.
TableValues == {TableObj(1)}
AuxValues == {ArrayObj(2, UnitArray)}
PlainValues == {ValueObj(1), ValueObj(2)}

InitAttr ==
    /\ nddata = <<Unit(DEFAULT_EXTENSION, 1, UnitArray, None, None, <<>>),
                  Unit(DEFAULT_EXTENSION, 2, UnitArray, None, None, <<>>)>>
    /\ InitCommon

AttrSelectors == {IntSel(0), IntSel(1), SliceSel(None, None, None)}

NextAttr ==
    \/ \E slc \in AttrSelectors : ProviderGetItem(slc)
    \/ \E a \in UpperNames, v \in TableValues : ProviderSetAttr(a, v)
    \/ \E a \in FixedSettable, v \in PlainValues : ProviderSetAttr(a, v)
    \/ \E a \in AttrNames : ProviderDelAttr(a)
    \/ \E a \in AttrNames : ProxyGetAttr(a)
    \/ \E a \in UpperNames, v \in AuxValues : ProxySetAttr(a, v)
    \/ \E a \in FixedSettable, v \in PlainValues : ProxySetAttr(a, v)
    \/ \E a \in LowerNames \ FixedSettable : ProxySetAttr(a, ValueObj(1))
    \/ \E a \in AttrNames : ProxyDelAttr(a)

SpecAttr == InitAttr /\ [][NextAttr]_vars

\* The auxiliary objects of the unit a single view designates, in a state.
ViewOther(units, p) == units[p.mapping[1] + 1].other

\* C4: on a single view, get, set and delete of an uppercase name operate on
\* the designated unit's auxiliary objects and never on the provider's
\* tables, even when the provider holds a table of that name; on a multi-view
\* the uppercase set and delete raise TypeError and change nothing.
C4_UpperAttrOnUnit ==
    [][ (proxy.live /\ proxy' = proxy /\ last'.op \in {"proxy_getattr", "proxy_setattr", "proxy_delattr"}) =>
        LET a == last'.arg.name
        IN IsUpper(a) =>
           IF proxy.single
           THEN /\ tables' = tables /\ provDict' = provDict
                /\ (last'.op = "proxy_getattr" /\ OHas(ViewOther(nddata, proxy), a)) =>
                      last'.res = Got("aux", OGet(ViewOther(nddata, proxy), a))
                /\ (last'.op = "proxy_setattr") =>
                      /\ last'.exc = ""
                      /\ OHas(ViewOther(nddata', proxy), a)
                      /\ OGet(ViewOther(nddata', proxy), a) = last'.arg.value
                /\ (last'.op = "proxy_delattr") =>
                      IF OHas(ViewOther(nddata, proxy), a)
                      THEN last'.exc = "" /\ ~OHas(ViewOther(nddata', proxy), a)
                      ELSE last'.exc = "AttributeError" /\ nddata' = nddata
           ELSE (last'.op \in {"proxy_setattr", "proxy_delattr"}) =>
                   /\ last'.exc = "TypeError"
                   /\ UNCHANGED <<nddata, tables, provDict, exposed, hdulist, logger>>
      ]_vars

\* C4, without the lookup of a name the provider also knows: set and delete
\* work on the unit and leave the tables alone, and get returns the unit's
\* auxiliary object when the provider holds and exposes nothing of that name.
C4_SetDeleteOnUnit ==
    [][ (proxy.live /\ proxy' = proxy /\ last'.op \in {"proxy_getattr", "proxy_setattr", "proxy_delattr"}) =>
        LET a == last'.arg.name
        IN IsUpper(a) =>
           IF proxy.single
           THEN /\ tables' = tables /\ provDict' = provDict
                /\ (/\ last'.op = "proxy_getattr" /\ OHas(ViewOther(nddata, proxy), a)
                    /\ a \notin DOMAIN provDict /\ a \notin exposed) =>
                      last'.res = Got("aux", OGet(ViewOther(nddata, proxy), a))
                /\ (/\ last'.op = "proxy_getattr" /\ OHas(ViewOther(nddata, proxy), a)
                    /\ a \in DOMAIN provDict) =>
                      last'.res = Got("provider", provDict[a])
                /\ (last'.op = "proxy_setattr") =>
                      /\ last'.exc = ""
                      /\ OHas(ViewOther(nddata', proxy), a)
                      /\ OGet(ViewOther(nddata', proxy), a) = last'.arg.value
                /\ (last'.op = "proxy_delattr") =>
                      IF OHas(ViewOther(nddata, proxy), a)
                      THEN last'.exc = "" /\ ~OHas(ViewOther(nddata', proxy), a)
                      ELSE last'.exc = "AttributeError" /\ nddata' = nddata
           ELSE (last'.op \in {"proxy_setattr", "proxy_delattr"}) =>
                   /\ last'.exc = "TypeError"
                   /\ UNCHANGED <<nddata, tables, provDict, exposed, hdulist, logger>>
      ]_vars

\* C5: an assignment of a settable non-uppercase attribute through a view
\* reaches the provider: after it, the provider's value of the attribute is
\* the value assigned, also when the attribute was assigned before.
C5_LowerAttrForwarded ==
    (last.op = "proxy_setattr" /\ last.exc = "" /\ last.arg.name \in FixedSettable) =>
        /\ last.arg.name \in DOMAIN provDict
        /\ provDict[last.arg.name] = last.arg.value

\* C5, for the first assignment of the attribute through the view only:
\* the name is then in the view's own dictionary, with whatever was last
\* assigned, and later assignments stop there.
C5_FirstAssignmentForwarded ==
    [][ (/\ proxy.live /\ proxy' # proxy /\ last'.op = "proxy_setattr"
         /\ last'.arg.name \in FixedSettable) =>
           IF last'.arg.name \notin DOMAIN proxy.dict
           THEN provDict' = DictSet(provDict, last'.arg.name, last'.arg.value)
           ELSE provDict' = provDict
      ]_vars

\* C19: deleting an uppercase attribute on the provider removes the table of
\* that name from the table mapping and from the provider's attributes; a
\* name that is no table fails with AttributeError and a non-uppercase name
\* with ValueError, both leaving the provider unchanged.
C19_ProviderDelattr ==
    [][ last'.op = "delattr" =>
          LET a == last'.arg.name
          IN IF ~IsUpper(a)
             THEN /\ last'.exc = "ValueError"
                  /\ tables' = tables /\ provDict' = provDict /\ nddata' = nddata
             ELSE IF a \in DOMAIN tables
             THEN /\ last'.exc = ""
                  /\ DOMAIN tables' = DOMAIN tables \ {a}
                  /\ DOMAIN provDict' = DOMAIN provDict \ {a}
                  /\ \A n \in DOMAIN tables' : tables'[n] = tables[n]
                  /\ \A n \in DOMAIN provDict' : provDict'[n] = provDict[n]
                  /\ nddata' = nddata
             ELSE /\ last'.exc = "AttributeError"
                  /\ tables' = tables /\ provDict' = provDict /\ nddata' = nddata
      ]_vars

\* A table REF was deleted from a provider that keeps its table CAT and its
\* attribute data.
C19_Witness ==
    /\ last.op = "delattr" /\ last.exc = "" /\ last.arg.name = "REF"
    /\ "REF" \notin DOMAIN tables /\ "REF" \notin DOMAIN provDict
    /\ "CAT" \in DOMAIN tables /\ "CAT" \in DOMAIN provDict
    /\ "data" \in DOMAIN provDict

----------------------------------------------------------------------------
(* The header collection.                                                  *)

Keys == {"CCDNAME", "GAIN"}
HdrValues == {1, 2}
Defaults == {None, Some(2)}
HeaderIds == 1..MaxRecs

\* The record a position of the collection refers to.
HeaderAt(st, cl, k) == st[cl[k]]

\* FitsHeaderCollection._insert: list.insert(idx, header).
HdrInsert(idx, id) ==
    /\ Len(coll) < MaxRecs
    /\ idx \in 0..Len(coll)
    /\ coll' = [k \in 1..(Len(coll) + 1) |->
                  IF k <= idx THEN coll[k] ELSE IF k = idx + 1 THEN id ELSE coll[k - 1]]
    /\ last' = Op("hdr_insert", [key |-> "", value |-> None], None, None, "")
    /\ UNCHANGED <<nddata, tables, provDict, exposed, proxy, store, hdulist, logger>>

\* The owner of a record sets or deletes a keyword on it directly.
OwnerSet(id, key, value) ==
    /\ store' = [store EXCEPT ![id] = DictSet(@, key, value)]
    /\ last' = Op("owner_set", [key |-> key, value |-> Some(value)], None, None, "")
    /\ UNCHANGED <<nddata, tables, provDict, exposed, proxy, coll, hdulist, logger>>

OwnerDel(id, key) ==
    /\ key \in DOMAIN store[id]
    /\ store' = [store EXCEPT ![id] = DictDel(@, key)]
    /\ last' = Op("owner_del", [key |-> key, value |-> None], None, None, "")
    /\ UNCHANGED <<nddata, tables, provDict, exposed, proxy, coll, hdulist, logger>>

\* Mutant of HdrSetResult: only the records that hold the key are written.
HdrSetExistingOnly(st, cl, key, value) ==
    [id \in DOMAIN st |->
        IF id \in Range(cl) /\ key \in DOMAIN st[id]
        THEN DictSet(st[id], key, value) ELSE st[id]]

\* FitsHeaderCollection.set: header.set(key, value) on every record.
RECURSIVE HdrSetLoop(_, _, _, _, _)
HdrSetLoop(st, cl, key, value, k) ==
    IF k > Len(cl) THEN st
    ELSE HdrSetLoop([st EXCEPT ![cl[k]] = DictSet(@, key, value)], cl, key, value, k + 1)

HdrSetResult(st, cl, key, value) == HdrSetLoop(st, cl, key, value, 1)

HdrSet(key, value) ==
    /\ store' = HdrSetResult(store, coll, key, value)
    /\ last' = Op("hdr_set", [key |-> key, value |-> Some(value)], None, None, "")
    /\ UNCHANGED <<nddata, tables, provDict, exposed, proxy, coll, hdulist, logger>>

\* The loop of FitsHeaderCollection.__getitem__: ret and missing_at after
\* the records from position k on.
RECURSIVE HdrGetLoop(_, _, _, _, _)
HdrGetLoop(st, cl, key, k, acc) ==
    IF k > Len(cl) THEN acc
    ELSE LET header == HeaderAt(st, cl, k)
         IN IF key \in DOMAIN header
            THEN HdrGetLoop(st, cl, key, k + 1,
                            [acc EXCEPT !.values = Append(@, Some(header[key]))])
            ELSE HdrGetLoop(st, cl, key, k + 1,
                            [acc EXCEPT !.values = Append(@, None),
                                        !.missing_at = Append(@, k - 1),
                                        !.exc = "KeyError"])

\* Mutant of HdrGetItemResult: the lookup stops at the first record that
\* lacks the key.
HdrGetItemStopAtMissing(st, cl, key) ==
    LET r == HdrGetLoop(st, cl, key, 1, [values |-> <<>>, missing_at |-> <<>>, exc |-> ""])
    IN IF r.exc = "" THEN r
       ELSE [values |-> SubSeq(r.values, 1, r.missing_at[1] + 1),
             missing_at |-> <<r.missing_at[1]>>, exc |-> r.exc]

\* FitsHeaderCollection.__getitem__: the list returned, or the KeyError with
\* its missing_at and values.
HdrGetItemResult(st, cl, key) ==
    HdrGetLoop(st, cl, key, 1, [values |-> <<>>, missing_at |-> <<>>, exc |-> ""])

HdrGetItem(key) ==
    /\ LET r == HdrGetItemResult(store, coll, key)
       IN last' = Op("hdr_getitem", [key |-> key, value |-> None], None, r, r.exc)
    /\ UNCHANGED <<nddata, tables, provDict, exposed, proxy, store, coll, hdulist, logger>>

\* FitsHeaderCollection.get
RECURSIVE FillDefault(_, _, _, _)
FillDefault(vals, missing_at, default, k) ==
    IF k > Len(missing_at) THEN vals
    ELSE FillDefault([vals EXCEPT ![missing_at[k] + 1] = default], missing_at, default, k + 1)

HdrGetResult(st, cl, key, default) ==
    LET r == HdrGetItemResult(st, cl, key)
    IN IF r.exc = "" THEN r.values
       ELSE FillDefault(r.values, r.missing_at, default, 1)

HdrGet(key, default) ==
    /\ LET vals == HdrGetResult(store, coll, key, default)
       IN last' = Op("hdr_get", [key |-> key, value |-> default], None, vals, "")
    /\ UNCHANGED <<nddata, tables, provDict, exposed, proxy, store, coll, hdulist, logger>>

\* The loop of FitsHeaderCollection.remove: the records and the count of
\* deletions after the records from position k on.
RECURSIVE HdrRemoveLoop(_, _, _, _, _)
HdrRemoveLoop(st, cl, key, k, deleted) ==
    IF k > Len(cl) THEN [store |-> st, deleted |-> deleted]
    ELSE IF key \in DOMAIN st[cl[k]]
         THEN HdrRemoveLoop([st EXCEPT ![cl[k]] = DictDel(@, key)], cl, key, k + 1, deleted + 1)
         ELSE HdrRemoveLoop(st, cl, key, k + 1, deleted)

\* Mutant of HdrRemoveResult: a record that lacks the key ends the removal
\* with the KeyError.
HdrRemoveStrict(st, cl, key) ==
    LET r == HdrRemoveLoop(st, cl, key, 1, 0)
    IN IF \E k \in 1..Len(cl) : key \notin DOMAIN st[cl[k]]
       THEN [store |-> st, deleted |-> 0, exc |-> "KeyError"]
       ELSE [store |-> r.store, deleted |-> r.deleted,
             exc |-> IF r.deleted = 0 THEN "KeyError" ELSE ""]

\* FitsHeaderCollection.remove
HdrRemoveResult(st, cl, key) ==
    LET r == HdrRemoveLoop(st, cl, key, 1, 0)
    IN [store |-> r.store, deleted |-> r.deleted,
        exc |-> IF r.deleted = 0 THEN "KeyError" ELSE ""]

HdrRemove(key) ==
    /\ LET r == HdrRemoveResult(store, coll, key)
       IN /\ store' = r.store
          /\ last' = Op("hdr_remove", [key |-> key, value |-> None], None,
                        r.deleted, r.exc)
    /\ UNCHANGED <<nddata, tables, provDict, exposed, proxy, coll, hdulist, logger>>

\* FitsHeaderCollection.__contains__
HdrContains(st, cl, key) == \E k \in 1..Len(cl) : key \in DOMAIN HeaderAt(st, cl, k)

InitHdr ==
    /\ nddata = <<>>
    /\ tables = EmptyDict
    /\ provDict = EmptyDict
    /\ exposed = {}
    /\ proxy = NoProxy
    /\ store = [id \in HeaderIds |-> EmptyDict]
    /\ coll = <<>>
    /\ hdulist = <<>>
    /\ logger = DefaultLogger
    /\ last = NoOp

NextHdr ==
    \/ \E idx \in 0..MaxRecs, id \in HeaderIds : HdrInsert(idx, id)
    \/ \E id \in HeaderIds, key \in Keys, v \in HdrValues : OwnerSet(id, key, v)
    \/ \E id \in HeaderIds, key \in Keys : OwnerDel(id, key)
    \/ \E key \in Keys, v \in HdrValues : HdrSet(key, v)
    \/ \E key \in Keys : HdrGetItem(key)
    \/ \E key \in Keys, d \in Defaults : HdrGet(key, d)
    \/ \E key \in Keys : HdrRemove(key)

SpecHdr == InitHdr /\ [][NextHdr]_vars

\* The positions of the collection whose record lacks the key (0-based).
MissingAt(key) == {k \in 0..(Len(coll) - 1) : key \notin DOMAIN store[coll[k + 1]]}

\* C7: a keyed lookup returns one value per record in record order; if some
\* record lacks the key it raises KeyError with missing_at exactly the
\* positions lacking the key, in order, and values holding the found value
\* everywhere else; get(key, default) never raises and returns that list
\* with default at exactly the missing positions.
C7_LookupPerRecord ==
    /\ (last.op = "hdr_getitem") =>
         LET key == last.arg.key
             r == last.res
         IN /\ Len(r.values) = Len(coll)
            /\ \A k \in 1..Len(coll) :
                 r.values[k] = IF (k - 1) \in MissingAt(key) THEN None
                               ELSE Some(store[coll[k]][key])
            /\ Range(r.missing_at) = MissingAt(key)
            /\ \A i, j \in 1..Len(r.missing_at) : (i < j) => r.missing_at[i] < r.missing_at[j]
            /\ (last.exc = "KeyError") <=> (MissingAt(key) # {})
            /\ last.exc \in {"", "KeyError"}
    /\ (last.op = "hdr_get") =>
         LET key == last.arg.key
         IN /\ last.exc = ""
            /\ Len(last.res) = Len(coll)
            /\ \A k \in 1..Len(coll) :
                 last.res[k] = IF (k - 1) \in MissingAt(key) THEN last.arg.value
                               ELSE Some(store[coll[k]][key])

\* A lookup that found the key in the first record and not in the second.
C7_Witness ==
    /\ last.op = "hdr_getitem" /\ last.exc = "KeyError"
    /\ Len(coll) >= 2
    /\ last.res.missing_at = <<1>>
    /\ last.res.values[1] # None

\* C8: set(key, value) writes the value into every record of the
\* collection, in the records' own store, so the keyed lookup that follows
\* succeeds with the value for every record, whatever the records held.
C8_SetThenLookup ==
    (last.op = "hdr_set") =>
        LET key == last.arg.key
            r == HdrGetItemResult(store, coll, key)
        IN /\ \A k \in 1..Len(coll) :
                key \in DOMAIN store[coll[k]] /\ Some(store[coll[k]][key]) = last.arg.value
           /\ r.exc = ""
           /\ r.values = [k \in 1..Len(coll) |-> last.arg.value]

\* The records outside the collection are not written.
C8_Witness ==
    /\ last.op = "hdr_set" /\ last.arg = [key |-> "GAIN", value |-> Some(2)]
    /\ coll = <<1>>
    /\ "GAIN" \notin DOMAIN store[2]
    /\ store[1] = [n \in {"GAIN", "CCDNAME"} |-> IF n = "GAIN" THEN 2 ELSE 1]

\* C9: remove(key) deletes the key from every record of the collection that
\* has it and leaves the others as they were; it raises KeyError exactly
\* when no record had the key, and then no record is modified; after a
\* successful remove, contains(key) is false.
C9_RemoveEverywhere ==
    [][ (last'.op = "hdr_remove") =>
          LET key == last'.arg.key
              had == {k \in 1..Len(coll) : key \in DOMAIN store[coll[k]]}
          IN /\ coll' = coll
             /\ (last'.exc = "KeyError") <=> (had = {})
             /\ last'.exc \in {"", "KeyError"}
             /\ (had = {}) => store' = store
             /\ \A id \in HeaderIds :
                  store'[id] = IF id \in Range(coll) /\ key \in DOMAIN store[id]
                               THEN DictDel(store[id], key)
                               ELSE store[id]
             /\ (last'.exc = "") => ~HdrContains(store', coll', key)
      ]_vars

\* A remove of a key that one record of two had.
C9_Witness ==
    /\ last.op = "hdr_remove" /\ last.exc = ""
    /\ last.res = 1
    /\ Len(coll) = 2 /\ coll[1] # coll[2]
    /\ ~HdrContains(store, coll, last.arg.key)

----------------------------------------------------------------------------
(* Cropping.                                                               *)

\* The window with an empty extent normalised: all empty arrays of one
\* shape are equal.
NormWin(y0, x0, h, w) ==
    Win(IF h = 0 THEN 0 ELSE y0, IF w = 0 THEN 0 ELSE x0, h, w)

\* Mutant of Slice2D: the bounds index the original pixel grid, not the
\* array being sliced.
Slice2DAbsolute(a, x1, y1, x2, y2) ==
    LET ry == SliceIndices(SliceSel(Some(y1), Some(y2 + 1), None), a.h)
        rx == SliceIndices(SliceSel(Some(x1), Some(x2 + 1), None), a.w)
    IN NormWin(ry[1], rx[1], Max(0, ry[2] - ry[1]), Max(0, rx[2] - rx[1]))

\* a[y1:y2+1, x1:x2+1] on a 2-D array, with Python's clamping of bounds.
Slice2D(a, x1, y1, x2, y2) ==
    LET ry == SliceIndices(SliceSel(Some(y1), Some(y2 + 1), None), a.h)
        rx == SliceIndices(SliceSel(Some(x1), Some(x2 + 1), None), a.w)
        h == Max(0, ry[2] - ry[1])
        w == Max(0, rx[2] - rx[1])
    IN NormWin(a.y0 + ry[1], a.x0 + rx[1], h, w)

SliceOpt(o, x1, y1, x2, y2) ==
    IF IsNone(o) THEN None ELSE Some(Slice2D(The(o), x1, y1, x2, y2))

\* FitsProvider._crop_nd on a unit: data, and uncertainty and mask when set.
CropUnit(nd, x1, y1, x2, y2) ==
    [nd EXCEPT !.data = Slice2D(@, x1, y1, x2, y2),
               !.uncertainty = SliceOpt(@, x1, y1, x2, y2),
               !.mask = SliceOpt(@, x1, y1, x2, y2)]

\* Whether o.shape == orig_shape; a table has no shape (AttributeError,
\* which _crop_impl passes over).
HasShape(o) == o.kind \in {"ndarray", "nddata"}
ShapeMatches(o, orig_shape) == HasShape(o) /\ Shape(The(o.arr)) = orig_shape

\* FitsProvider._crop_nd on an auxiliary object of matching shape.  On an
\* array-like unit it slices .data; on a numpy array .data is the array's
\* buffer (a memoryview), whose slicing by a tuple of slices raises
\* NotImplementedError before anything is assigned.
CropAux(o, x1, y1, x2, y2) ==
    IF o.kind = "nddata"
    THEN [obj |-> [o EXCEPT !.arr = SliceOpt(@, x1, y1, x2, y2)], exc |-> ""]
    ELSE [obj |-> o, exc |-> "NotImplementedError"]

\* The loop over nd.meta['other'] in _crop_impl, from entry k on.
RECURSIVE CropOthers(_, _, _, _, _, _, _)
CropOthers(other, orig_shape, x1, y1, x2, y2, k) ==
    IF k > Len(other) THEN [other |-> other, exc |-> ""]
    ELSE IF ~ShapeMatches(other[k].obj, orig_shape)
         THEN CropOthers(other, orig_shape, x1, y1, x2, y2, k + 1)
         ELSE LET r == CropAux(other[k].obj, x1, y1, x2, y2)
              IN IF r.exc # "" THEN [other |-> other, exc |-> r.exc]
                 ELSE CropOthers([other EXCEPT ![k].obj = r.obj],
                                 orig_shape, x1, y1, x2, y2, k + 1)

\* FitsProvider._crop_impl over the units from position k on: the units
\* after, and the exception that ended the loop.
RECURSIVE CropImpl(_, _, _, _, _, _)
CropImpl(nds, x1, y1, x2, y2, k) ==
    IF k > Len(nds) THEN [nddata |-> nds, exc |-> ""]
    ELSE LET nd == nds[k]
             orig_shape == Shape(nd.data)
             cropped == CropUnit(nd, x1, y1, x2, y2)
             r == CropOthers(nd.other, orig_shape, x1, y1, x2, y2, 1)
             nds1 == [nds EXCEPT ![k] = [cropped EXCEPT !.other = r.other]]
         IN IF r.exc # "" THEN [nddata |-> nds1, exc |-> r.exc]
            ELSE CropImpl(nds1, x1, y1, x2, y2, k + 1)

\* Whether a call crop(x1, y1, x2, y2) re-applies the bounds already cropped
\* by the call before it: (0, 0, x2 - x1, y2 - y1) of that call.
Reapplies(prev, x1, y1, x2, y2) ==
    /\ prev.op = "crop"
    /\ x1 = 0 /\ y1 = 0
    /\ x2 = prev.arg.x2 - prev.arg.x1
    /\ y2 = prev.arg.y2 - prev.arg.y1

\* FitsProvider.crop; the call records whether it re-applies the call before.
Crop(x1, y1, x2, y2) ==
    /\ LET r == CropImpl(nddata, x1, y1, x2, y2, 1)
       IN /\ nddata' = r.nddata
          /\ last' = Op("crop", [x1 |-> x1, y1 |-> y1, x2 |-> x2, y2 |-> y2],
                        Reapplies(last, x1, y1, x2, y2), None, r.exc)
    /\ UNCHANGED <<tables, provDict, exposed, proxy, store, coll, hdulist, logger>>

\* The providers cropped: one or two units of a 2 x 3 pixel grid, with or
\* without uncertainty and mask, with auxiliary objects of every kind, of
\* the units' shape and of another.
FullArray == Win(0, 0, 2, 3)
SmallArray == Win(0, 0, 1, 2)

Entry(n, o) == [name |-> n, obj |-> o]

CropOthersChoices ==
    { <<>>,
      <<Entry("REF", NDObj(1, FullArray))>>,
      <<Entry("REF", ArrayObj(1, FullArray))>>,
      <<Entry("REF", TableObj(1)), Entry("CAT", NDObj(2, SmallArray))>>,
      <<Entry("REF", NDObj(1, FullArray)), Entry("CAT", ArrayObj(2, FullArray))>> }

CropPlanes == {<<None, None>>, <<Some(FullArray), Some(FullArray)>>}

CropUnits ==
    { Unit(DEFAULT_EXTENSION, 1, FullArray, pl[1], pl[2], other) :
        pl \in CropPlanes, other \in CropOthersChoices }

CropSecondUnit == Unit(DEFAULT_EXTENSION, 2, FullArray, None, None, <<>>)

InitCrop ==
    /\ nddata \in {<<u>> : u \in CropUnits}
                 \cup {<<u, CropSecondUnit>> : u \in {v \in CropUnits : IsNone(v.mask)}}
    /\ InitCommon

CropLow == {0, 1}
CropHigh == {-2, -1, 0, 1, 2}
CropRows == {0, 1}

NextCrop ==
    \E x1 \in CropLow, y1 \in CropLow, x2 \in CropHigh, y2 \in CropRows :
        Crop(x1, y1, x2, y2)

SpecCrop == InitCrop /\ [][NextCrop]_vars

\* C10: crop(x1, y1, x2, y2) replaces, for every unit, the primary array and
\* (when present) the uncertainty and the mask by rows y1..y2, columns
\* x1..x2, so the three keep one shape; every auxiliary object whose shape
\* was the unit's before the crop is cropped to the same region, and every
\* other auxiliary object is left as it was.
C10_CropAllUnits ==
    [][ (last'.op = "crop") =>
          LET c == last'.arg
          IN /\ Len(nddata') = Len(nddata)
             /\ \A k \in 1..Len(nddata) :
                  LET nd == nddata[k]
                      after == nddata'[k]
                  IN /\ after.data = Slice2D(nd.data, c.x1, c.y1, c.x2, c.y2)
                     /\ after.uncertainty = SliceOpt(nd.uncertainty, c.x1, c.y1, c.x2, c.y2)
                     /\ after.mask = SliceOpt(nd.mask, c.x1, c.y1, c.x2, c.y2)
                     /\ (~IsNone(after.uncertainty)) =>
                           Shape(The(after.uncertainty)) = Shape(after.data)
                     /\ (~IsNone(after.mask)) => Shape(The(after.mask)) = Shape(after.data)
                     /\ Len(after.other) = Len(nd.other)
                     /\ \A i \in 1..Len(nd.other) :
                          LET o == nd.other[i].obj
                          IN after.other[i] =
                               IF ShapeMatches(o, Shape(nd.data))
                               THEN Entry(nd.other[i].name,
                                          [o EXCEPT !.arr = SliceOpt(@, c.x1, c.y1, c.x2, c.y2)])
                               ELSE nd.other[i]
      ]_vars

\* C10, for the providers none of whose auxiliary objects is a numpy array
\* of its unit's shape: the crop completes and is as C10 says.
C10_CropWithoutMatchingArrays ==
    [][ (/\ last'.op = "crop"
         /\ \A k \in 1..Len(nddata) : \A i \in 1..Len(nddata[k].other) :
               ~(nddata[k].other[i].obj.kind = "ndarray"
                 /\ ShapeMatches(nddata[k].other[i].obj, Shape(nddata[k].data)))) =>
          LET c == last'.arg
          IN /\ last'.exc = ""
             /\ Len(nddata') = Len(nddata)
             /\ \A k \in 1..Len(nddata) :
                  LET nd == nddata[k]
                      after == nddata'[k]
                  IN /\ after.data = Slice2D(nd.data, c.x1, c.y1, c.x2, c.y2)
                     /\ after.uncertainty = SliceOpt(nd.uncertainty, c.x1, c.y1, c.x2, c.y2)
                     /\ after.mask = SliceOpt(nd.mask, c.x1, c.y1, c.x2, c.y2)
                     /\ Len(after.other) = Len(nd.other)
                     /\ \A i \in 1..Len(nd.other) :
                          LET o == nd.other[i].obj
                          IN after.other[i] =
                               IF ShapeMatches(o, Shape(nd.data))
                               THEN Entry(nd.other[i].name,
                                          [o EXCEPT !.arr = SliceOpt(@, c.x1, c.y1, c.x2, c.y2)])
                               ELSE nd.other[i]
      ]_vars

----------------------------------------------------------------------------
(* The Reader's preparation of the raw extension list: _prepare_hdulist.    *)

MaxExts == 4

\* The sort key of an unnumbered extension (fits_ext_comp_key): 2**32-1 in
\* the source, "larger than any EXTVER found in real life"; here one more
\* than any EXTVER a container of the model holds or is given.
UnnumberedKey == MaxVer + MaxExts + 1

\* A raw extension (HDU): its kind, its EXTNAME and EXTVER (None when the
\* header lacks the keyword) and its data (None for a header-only extension).
Hdu(kind, name, ver, data) ==
    [kind |-> kind, name |-> name, ver |-> ver, data |-> data]
PrimaryHDU == Hdu("primary", None, None, None)
ImageHDU(name, ver, data) == Hdu("image", name, ver, data)
BinTableHDU(name, ver, data) == Hdu("bintable", name, ver, data)
TableHDU(name, ver, data) == Hdu("asciitable", name, ver, data)

\* ev not in (-1, None)
HasVer(u) == ~IsNone(u.ver) /\ The(u.ver) # -1

\* Mutant of IsMEF: by the length alone.
IsMEFByLength(hl) == Len(hl) > 1

\* len(hdulist) > 1 or (len(hdulist) == 1 and hdulist[0].data is None)
IsMEF(hl) == Len(hl) > 1 \/ (Len(hl) = 1 /\ IsNone(hl[1].data))

\* The first loop of _prepare_hdulist: the extensions that declare a version
\* and a name, and the primary ones.
Declared(hl) == {n \in 1..Len(hl) : HasVer(hl[n]) /\ ~IsNone(hl[n].name)}
Recognized(hl) == Declared(hl) \cup {n \in 1..Len(hl) : hl[n].kind = "primary"}
HighestDeclared(hl) == MaxOf({0} \cup {The(hl[n].ver) : n \in Declared(hl)})

\* An unrecognized image as the second loop leaves it, highest_ver being
\* already incremented: EXTNAME and EXTVER are filled in where missing.
FillIn(unit, highest_ver) ==
    [unit EXCEPT !.name = IF IsNone(@) THEN Some(DEFAULT_EXTENSION) ELSE @,
                 !.ver = IF ~HasVer(unit) THEN Some(highest_ver) ELSE @]

\* The second loop of _prepare_hdulist from extension n on: the extensions
\* not recognized are added to new_list, an image among them with its header
\* filled in (the extension object itself is changed: units).
RECURSIVE PrepareRest(_, _, _, _, _)
PrepareRest(units, rec, n, highest_ver, new_list) ==
    IF n > Len(units) THEN [units |-> units, new_list |-> new_list]
    ELSE IF n \in rec THEN PrepareRest(units, rec, n + 1, highest_ver, new_list)
    ELSE IF units[n].kind = "image"
         THEN LET unit == FillIn(units[n], highest_ver + 1)
              IN PrepareRest([units EXCEPT ![n] = unit], rec, n + 1,
                             highest_ver + 1, Append(new_list, unit))
         ELSE PrepareRest(units, rec, n + 1, highest_ver, Append(new_list, units[n]))

\* The two loops of _prepare_hdulist on a multi-extension list, or the
\* single-image branch: the extensions as left, and new_list before it is
\* sorted.
NewList(hl) ==
    IF IsMEF(hl)
    THEN PrepareRest(hl, Recognized(hl), 1, HighestDeclared(hl),
                     SelectSeq(hl, LAMBDA u : (HasVer(u) /\ ~IsNone(u.name))
                                               \/ u.kind = "primary"))
    ELSE [units |-> hl,
          new_list |-> <<PrimaryHDU,
                         ImageHDU(Some(DEFAULT_EXTENSION), Some(1), hl[1].data)>>]

\* The names fits_ext_comp_key compares, in the order of Python's string
\* comparison: the default extension as it is, any other with "z" in front,
\* an absent one as "zzzz".
KeyNames == <<"SCI", "zCAT", "zDQ", "zREF", "zREFCAT", "zVAR", "zWCS", "zzzz", "zzzzz">>
KeyName(name) ==
    IF IsNone(name) THEN "zzzz"
    ELSE IF The(name) # DEFAULT_EXTENSION THEN "z" \o The(name)
    ELSE The(name)
NameRank(str) == CHOOSE i \in 1..Len(KeyNames) : KeyNames[i] = str

\* fits_ext_comp_key
fits_ext_comp_key(ext) ==
    IF ext.kind = "primary" THEN <<-1, 0>>
    ELSE IF ~HasVer(ext) THEN <<UnnumberedKey, NameRank(KeyName(ext.name))>>
    ELSE <<The(ext.ver), NameRank(KeyName(ext.name))>>

\* Comparison of two keys as tuples.
KeyLess(a, b) == a[1] < b[1] \/ (a[1] = b[1] /\ a[2] < b[2])

\* sorted(new_list, key=fits_ext_comp_key): a stable sort, here by insertion
\* of each element behind the elements whose key is not greater.
InsertByKey(sorted, u) ==
    LET k == Cardinality({i \in 1..Len(sorted) :
                            ~KeyLess(fits_ext_comp_key(u), fits_ext_comp_key(sorted[i]))})
    IN SubSeq(sorted, 1, k) \o <<u>> \o SubSeq(sorted, k + 1, Len(sorted))

RECURSIVE SortByKey(_, _)
SortByKey(seq, n) ==
    IF n = 0 THEN <<>> ELSE InsertByKey(SortByKey(seq, n - 1), seq[n])

\* _prepare_hdulist
PrepareHdulist(hl) ==
    LET new_list == NewList(hl).new_list IN SortByKey(new_list, Len(new_list))

\* The extensions of the containers prepared, by kind, EXTNAME and EXTVER:
\* images and tables that declare both, either or neither, one of the tables
\* under a name that Python orders behind "zzz".
PrepShapes ==
    { [kind |-> "image", name |-> Some("SCI"), ver |-> Some(1)],
      [kind |-> "image", name |-> Some("SCI"), ver |-> Some(2)],
      [kind |-> "image", name |-> None,        ver |-> None],
      [kind |-> "image", name |-> None,        ver |-> Some(2)],
      [kind |-> "image", name |-> Some("VAR"), ver |-> None],
      [kind |-> "bintable", name |-> Some("CAT"), ver |-> None],
      [kind |-> "bintable", name |-> None,        ver |-> None],
      [kind |-> "bintable", name |-> None,        ver |-> Some(1)],
      [kind |-> "bintable", name |-> Some("zzzz"), ver |-> Some(1)] }

\* A container: the primary extension, then extensions of the shapes given,
\* the data of each being its position in the file.
Container(shapes) ==
    [i \in 1..(Len(shapes) + 1) |->
        IF i = 1 THEN PrimaryHDU
        ELSE Hdu(shapes[i - 1].kind, shapes[i - 1].name, shapes[i - 1].ver, Some(i - 1))]

ContainersOf(shapes) ==
    {Container(f) : f \in UNION {[1..n -> shapes] : n \in 0..MaxExts}}

\* A file that holds a single image in its primary extension.
SingleImageFile == <<Hdu("primary", None, None, Some(1))>>

\* No provider state: tables, attributes, views and header collections are
\* empty.
InitFile ==
    /\ nddata = <<>>
    /\ tables = EmptyDict
    /\ provDict = EmptyDict
    /\ exposed = {}
    /\ proxy = NoProxy
    /\ store = <<>>
    /\ coll = <<>>
    /\ logger = DefaultLogger
    /\ last = NoOp

InitPrepare ==
    /\ InitFile
    /\ hdulist \in ContainersOf(PrepShapes) \cup {SingleImageFile}

\* _prepare_hdulist(hdulist): the sorted list is the result; the extension
\* objects of the list given are the ones whose headers were filled in.
Prepare ==
    /\ Len(hdulist) >= 1
    /\ hdulist' = NewList(hdulist).units
    /\ last' = Op("prepare", None, hdulist, PrepareHdulist(hdulist), "")
    /\ UNCHANGED <<nddata, tables, provDict, exposed, proxy, store, coll, logger>>

NextPrepare == Prepare

SpecPrepare == InitPrepare /\ [][NextPrepare]_vars

\* The largest version seen or assigned when extension n is reached: the
\* versions of the extensions that declare a name and a version (the first
\* loop has seen them all), and the versions that the extensions before n
\* declare or were given.
LargestSoFar(before, after, n) ==
    MaxOf({0} \cup {The(before[m].ver) : m \in Declared(before)}
              \cup {The(after[m].ver) : m \in {k \in 1..(n - 1) : HasVer(after[k])}})

\* What C13 says of extension n of a multi-extension list.
AssignedAsC13(before, after, n) ==
    /\ (before[n].kind = "image" /\ IsNone(before[n].name) /\ IsNone(before[n].ver)) =>
          /\ after[n].name = Some(DEFAULT_EXTENSION)
          /\ after[n].ver = Some(LargestSoFar(before, after, n) + 1)
    /\ (~IsNone(before[n].name) /\ HasVer(before[n])) => after[n] = before[n]

\* C13: in the multi-unit branch an image extension with neither name nor
\* version gets the name SCI and a version one greater than the largest
\* version assigned or seen so far; extensions that declare both keep their
\* name and version.
C13_AutoVersion ==
    (last.op = "prepare" /\ IsMEF(last.pre)) =>
        \A n \in 1..Len(last.pre) : AssignedAsC13(last.pre, hdulist, n)

\* C13 for the containers none of whose extensions declares a version
\* without a name.
C13_AutoVersionNamedVersions ==
    (/\ last.op = "prepare" /\ IsMEF(last.pre)
     /\ \A m \in 1..Len(last.pre) : HasVer(last.pre[m]) => ~IsNone(last.pre[m].name)) =>
        \A n \in 1..Len(last.pre) : AssignedAsC13(last.pre, hdulist, n)

----------------------------------------------------------------------------
(* The chunked executor: windowedOp.                                       *)

MaxAxis == 3
MaxStep == 3

\* The value np.empty leaves in an element never written.
Uninitialized == "uninitialized"

\* The elements of an array of the given shape, by (row, column).
Cells(shape) == (0..(shape[1] - 1)) \X (0..(shape[2] - 1))

\* Mutant of Ticks: floor tiling, the trailing partial block is dropped.
TicksFloor(axis, step) ==
    LET starts == PyRange(0, axis - step + 1, step)
    IN [k \in 1..Len(starts) |-> <<starts[k], starts[k] + step>>]

\* [(x, x+step) for x in range(0, axis, step)]
Ticks(axis, step) ==
    LET starts == PyRange(0, axis, step)
    IN [k \in 1..Len(starts) |-> <<starts[k], starts[k] + step>>]

\* list(cart_product(ticks0, ticks1)): the last axis varies fastest.
CartProduct(t0, t1) ==
    [k \in 1..(Len(t0) * Len(t1)) |->
        <<t0[((k - 1) \div Len(t1)) + 1], t1[((k - 1) % Len(t1)) + 1]>>]

\* windowedOp.generate_boxes for a shape and a kernel of two axes.
generate_boxes(shape, kernel) ==
    CartProduct(Ticks(shape[1], kernel[1]), Ticks(shape[2], kernel[2]))

\* The elements that the section slice(start, end) per axis selects in an
\* array of the given shape: the slices are clamped to the array.
SectionCells(coords, shape) ==
    LET r0 == SliceIndices(SliceSel(Some(coords[1][1]), Some(coords[1][2]), None), shape[1])
        r1 == SliceIndices(SliceSel(Some(coords[2][1]), Some(coords[2][2]), None), shape[2])
    IN (r0[1]..(r0[2] - 1)) \X (r1[1]..(r1[2] - 1))

\* element.window[section]: the elements selected, by their position in the
\* block.
WindowOf(array, coords, shape) ==
    LET cells == SectionCells(coords, shape)
    IN [c \in {<<x[1] - coords[1][1], x[2] - coords[2][1]>> : x \in cells} |->
           array[<<c[1] + coords[1][1], c[2] + coords[2][1]>>]]

\* result.set_section(section, out): the block is written at the section.
SetSection(result, coords, shape, out) ==
    LET cells == SectionCells(coords, shape)
    IN [c \in DOMAIN result |->
           IF c \in cells THEN out[<<c[1] - coords[1][1], c[2] - coords[2][1]>>]
           ELSE result[c]]

\* The function applied to each block: the identity.
Identity(block) == block

\* The loop of windowedOp over the boxes from box k on.
RECURSIVE ApplyBoxes(_, _, _, _, _)
ApplyBoxes(boxes, k, array, shape, result) ==
    IF k > Len(boxes) THEN result
    ELSE ApplyBoxes(boxes, k + 1, array, shape,
                    SetSection(result, boxes[k], shape,
                               Identity(WindowOf(array, boxes[k], shape))))

\* The input array: every element holds its own position.
InputArray(shape) == [c \in Cells(shape) |-> c]

\* windowedOp(func, [array], kernel) with func the identity: the boxes and
\* the result's data, np.empty(shape) before the blocks are written.
WindowedOp(shape, kernel) ==
    /\ LET boxes == generate_boxes(shape, kernel)
           empty == [c \in Cells(shape) |-> Uninitialized]
       IN last' = Op("windowedOp", [shape |-> shape, kernel |-> kernel], boxes,
                     ApplyBoxes(boxes, 1, InputArray(shape), shape, empty), "")
    /\ UNCHANGED <<nddata, tables, provDict, exposed, proxy, store, coll, hdulist, logger>>

InitWindowed ==
    /\ InitFile
    /\ hdulist = <<>>

NextWindowed ==
    \E shape \in (0..MaxAxis) \X (0..MaxAxis), kernel \in (1..MaxStep) \X (1..MaxStep) :
        WindowedOp(shape, kernel)

SpecWindowed == InitWindowed /\ [][NextWindowed]_vars

\* C18: the blocks of the chunked executor do not overlap and together
\* cover every element of the shape, a trailing partial block included, and
\* the identity applied block by block reproduces the input array.
C18_BlocksTile ==
    last.op = "windowedOp" =>
        LET shape == last.arg.shape
            boxes == last.pre
        IN /\ \A i, j \in 1..Len(boxes) :
                  i # j => SectionCells(boxes[i], shape) \cap SectionCells(boxes[j], shape) = {}
           /\ UNION {SectionCells(boxes[i], shape) : i \in 1..Len(boxes)} = Cells(shape)
           /\ \A i \in 1..Len(boxes) : SectionCells(boxes[i], shape) # {}
           /\ last.res = InputArray(shape)

\* A 3 x 3 array was processed in blocks of 2 x 2: four blocks, three of
\* them partial.
C18_Witness ==
    /\ last.op = "windowedOp"
    /\ last.arg.shape = <<3, 3>> /\ last.arg.kernel = <<2, 2>>
    /\ Len(last.pre) = 4
    /\ last.pre[4] = <<<<2, 4>>, <<2, 4>>>>
    /\ last.res = InputArray(<<3, 3>>)

----------------------------------------------------------------------------
(* The coordinate-transform codec: wcs_to_asdftablehdu and                 *)
(* asdftablehdu_to_wcs.  A document is a sequence of byte values.          *)

MaxDoc == 4

\* The bytes the documents are made of: '#', 'w', line feed, carriage
\* return, and a byte that is not ASCII.
Hash == 35
LetterW == 119
LF == 10
CR == 13
NonAscii == 200
DocBytes == {Hash, LetterW, LF, CR, NonAscii}

\* The first byte above the ASCII range.
AsciiLimit == 128
IsAscii(doc) == \A k \in 1..Len(doc) : doc[k] < AsciiLimit

\* str.splitlines(): the lines of a text, without their terminators; a line
\* ends at LF, CR or CR LF, and a terminator at the end opens no new line.
RECURSIVE SplitLines(_, _, _)
SplitLines(doc, k, line) ==
    IF k > Len(doc) THEN (IF line = <<>> THEN <<>> ELSE <<line>>)
    ELSE IF doc[k] = LF THEN <<line>> \o SplitLines(doc, k + 1, <<>>)
    ELSE IF doc[k] = CR
         THEN <<line>> \o SplitLines(doc, IF k < Len(doc) /\ doc[k + 1] = LF
                                          THEN k + 2 ELSE k + 1, <<>>)
    ELSE SplitLines(doc, k + 1, Append(line, doc[k]))

\* sep.join(lines)
RECURSIVE JoinLines(_, _)
JoinLines(lines, sep) ==
    IF lines = <<>> THEN <<>>
    ELSE IF Len(lines) = 1 THEN lines[1]
    ELSE lines[1] \o sep \o JoinLines(Tail(lines), sep)

\* os.linesep of the platforms.
LineSeps == {<<LF>>, <<CR, LF>>}

\* The data of a table extension: its single column, the kind of the
\* column's array (text strings or unsigned bytes) and its rows.
TableData(column, kind, rows) == [column |-> column, kind |-> kind, rows |-> rows]

\* asdf.open(fd) and af.tree['wcs'] on a document: the document opens when
\* it starts with the format's '#' line, and its tree holds under 'wcs' the
\* first line that starts with 'w'.
AsdfOpen(doc) ==
    LET lines == SplitLines(doc, 1, <<>>)
        entries == SelectSeq(lines, LAMBDA l : l # <<>> /\ l[1] = LetterW)
    IN IF lines = <<>> \/ lines[1] = <<>> \/ lines[1][1] # Hash
       THEN [opens |-> FALSE, wcs |-> None]
       ELSE [opens |-> TRUE, wcs |-> IF entries = <<>> THEN None ELSE Some(entries[1])]

\* Mutant of wcs_to_asdftablehdu: always the text carrier.
WcsToTableAlwaysText(wcsbuf, extver) ==
    [hdu |-> TableHDU(Some("WCS"), extver,
                      Some(TableData("gWCS", "U", SplitLines(wcsbuf, 1, <<>>)))),
     exc |-> ""]

\* wcs_to_asdftablehdu from the serialized document on (wcsbuf) : the
\* extension built, or the exception.  max() of no line raises ValueError.
wcs_to_asdftablehdu(wcsbuf, extver) ==
    IF IsAscii(wcsbuf)
    THEN LET lines == SplitLines(wcsbuf, 1, <<>>)
         IN IF lines = <<>> THEN [hdu |-> None, exc |-> "ValueError"]
            ELSE [hdu |-> TableHDU(Some("WCS"), extver,
                                   Some(TableData("gWCS", "U", lines))),
                  exc |-> ""]
    ELSE [hdu |-> BinTableHDU(Some("WCS"), extver,
                              Some(TableData("gWCS", "u1", wcsbuf))),
          exc |-> ""]

\* The bytes asdftablehdu_to_wcs hands to ASDF.  The rows of a column of
\* strings are joined by os.linesep and encoded as ASCII: byte strings ("S")
\* are first decoded as ASCII (UnicodeDecodeError for a byte outside ASCII),
\* and text ("U") with a character outside ASCII cannot be encoded
\* (UnicodeEncodeError).  The bytes of any other column are taken as they
\* are.
ColumnBytes(data, sep) ==
    IF data.kind \in {"U", "S"}
    THEN LET text == JoinLines(data.rows, sep)
         IN IF IsAscii(text) THEN [wcsbuf |-> text, exc |-> ""]
            ELSE IF data.kind = "S"
                 THEN [wcsbuf |-> <<>>, exc |-> "UnicodeDecodeError"]
                 ELSE [wcsbuf |-> <<>>, exc |-> "UnicodeEncodeError"]
    ELSE [wcsbuf |-> data.rows, exc |-> ""]

\* asdftablehdu_to_wcs: the transform (None, with a warning, when the
\* extension cannot be parsed), the bytes given to ASDF, and the exception
\* that escapes.
asdftablehdu_to_wcs(hdu, sep) ==
    IF hdu.kind \notin {"asciitable", "bintable"}
    THEN [wcs |-> None, wcsbuf |-> <<>>, exc |-> ""]
    ELSE IF The(hdu.data).column # "gWCS"
    THEN [wcs |-> None, wcsbuf |-> <<>>, exc |-> ""]
    ELSE LET b == ColumnBytes(The(hdu.data), sep)
             af == AsdfOpen(b.wcsbuf)
         IN IF b.exc # "" THEN [wcs |-> None, wcsbuf |-> <<>>, exc |-> b.exc]
            ELSE IF ~af.opens THEN [wcs |-> None, wcsbuf |-> b.wcsbuf, exc |-> ""]
            ELSE [wcs |-> af.wcs, wcsbuf |-> b.wcsbuf, exc |-> ""]

\* The serialized documents: up to MaxDoc bytes, never empty.
Docs == UNION {[1..n -> DocBytes] : n \in 1..MaxDoc}

\* Extensions that the codec did not write: an image named WCS, tables with
\* another column, columns of strings with and without a character outside
\* ASCII.
ForeignHdus ==
    { ImageHDU(Some("WCS"), Some(1), Some(1)),
      BinTableHDU(Some("WCS"), Some(1), Some(TableData("OTHER", "u1", <<Hash, LF, LetterW>>))),
      TableHDU(Some("WCS"), Some(1), Some(TableData("OTHER", "U", <<<<Hash>>, <<LetterW>>>>))),
      TableHDU(Some("WCS"), Some(1), Some(TableData("gWCS", "U", <<<<Hash>>, <<LetterW, NonAscii>>>>))),
      BinTableHDU(Some("WCS"), Some(1), Some(TableData("gWCS", "S", <<<<Hash>>, <<LetterW, NonAscii>>>>))),
      BinTableHDU(Some("WCS"), Some(1), Some(TableData("gWCS", "S", <<<<Hash>>, <<LetterW>>>>))) }

InitCodec ==
    /\ InitFile
    /\ hdulist \in {<<>>} \cup {<<h>> : h \in ForeignHdus}

\* wcs_to_asdftablehdu(wcs, extver) for a transform whose serialized
\* document is doc; the extension built is kept.  The function is pure: one
\* call per behaviour shows all it does.
EncodeWcs(doc, extver) ==
    /\ last.op = "init"
    /\ LET r == wcs_to_asdftablehdu(doc, extver)
       IN /\ hdulist' = IF r.exc = "" THEN <<r.hdu>> ELSE hdulist
          /\ last' = Op("wcs_to_asdftablehdu", [doc |-> doc, extver |-> extver],
                        None, r.hdu, r.exc)
    /\ UNCHANGED <<nddata, tables, provDict, exposed, proxy, store, coll, logger>>

\* asdftablehdu_to_wcs(hdu) of the extension kept, on a platform whose line
\* separator is sep; the call records the document that was encoded, if the
\* extension was built by the call before.
DecodeWcs(sep) ==
    /\ Len(hdulist) = 1
    /\ LET r == asdftablehdu_to_wcs(hdulist[1], sep)
       IN last' = Op("asdftablehdu_to_wcs", [hdu |-> hdulist[1], sep |-> sep],
                     IF last.op = "wcs_to_asdftablehdu" /\ last.exc = ""
                     THEN Some(last.arg) ELSE None,
                     r, r.exc)
    /\ UNCHANGED <<nddata, tables, provDict, exposed, proxy, store, coll, hdulist, logger>>

NextCodec ==
    \/ \E doc \in Docs, extver \in {None, Some(1), Some(2)} : EncodeWcs(doc, extver)
    \/ \E sep \in LineSeps : DecodeWcs(sep)

SpecCodec == InitCodec /\ [][NextCodec]_vars

\* What C16 says of the extension built for a document: the carrier is
\* chosen by content, with the single column gWCS, the name WCS and the
\* version given.
CarrierByContent(doc, extver, hdu) ==
    /\ hdu.name = Some("WCS") /\ hdu.ver = extver
    /\ The(hdu.data).column = "gWCS"
    /\ IF IsAscii(doc)
       THEN /\ hdu.kind = "asciitable" /\ The(hdu.data).kind = "U"
            /\ The(hdu.data).rows = SplitLines(doc, 1, <<>>)
       ELSE /\ hdu.kind = "bintable" /\ The(hdu.data).kind = "u1"
            /\ The(hdu.data).rows = doc

\* C16 as stated: the carrier is chosen by content and decoding yields back
\* the same document, hence the same transform.
C16_RoundTripSameDocument ==
    (last.op = "asdftablehdu_to_wcs" /\ ~IsNone(last.pre)) =>
        LET doc == The(last.pre).doc
        IN /\ CarrierByContent(doc, The(last.pre).extver, last.arg.hdu)
           /\ last.exc = ""
           /\ last.res.wcsbuf = doc
           /\ last.res.wcs = AsdfOpen(doc).wcs

\* C16: the carrier is chosen by content; decoding a binary table yields
\* back the same bytes, decoding a text table yields the document's lines
\* joined by the platform's line separator (the terminators of the document
\* are not kept, the last line has none), and the transform decoded is the
\* one the document holds.
C16_RoundTripLines ==
    (last.op = "asdftablehdu_to_wcs" /\ ~IsNone(last.pre)) =>
        LET doc == The(last.pre).doc
        IN /\ CarrierByContent(doc, The(last.pre).extver, last.arg.hdu)
           /\ last.exc = ""
           /\ last.res.wcsbuf = IF IsAscii(doc)
                                THEN JoinLines(SplitLines(doc, 1, <<>>), last.arg.sep)
                                ELSE doc
           /\ last.res.wcs = AsdfOpen(doc).wcs

\* A text document of two lines that holds a transform was encoded with
\* version 2 and decoded to the transform, without its final line feed.
C16_Witness ==
    /\ last.op = "asdftablehdu_to_wcs" /\ ~IsNone(last.pre)
    /\ The(last.pre).doc = <<Hash, LF, LetterW, LF>>
    /\ The(last.pre).extver = Some(2)
    /\ last.arg.hdu.kind = "asciitable"
    /\ last.arg.sep = <<LF>>
    /\ last.res.wcs = Some(<<LetterW>>)
    /\ last.res.wcsbuf = <<Hash, LF, LetterW>>

\* C17: decoding never raises; it returns no transform when the extension is
\* no table, has no gWCS column, holds a document that does not open or one
\* without 'wcs' entry, and the transform stored under 'wcs' otherwise.
C17_DecodeNeverRaises ==
    last.op = "asdftablehdu_to_wcs" =>
        /\ last.exc = ""
        /\ (last.arg.hdu.kind \notin {"asciitable", "bintable"} => IsNone(last.res.wcs))
        /\ (/\ last.arg.hdu.kind \in {"asciitable", "bintable"}
            /\ The(last.arg.hdu.data).column # "gWCS") => IsNone(last.res.wcs)
        /\ (/\ last.arg.hdu.kind \in {"asciitable", "bintable"}
            /\ The(last.arg.hdu.data).column = "gWCS") =>
               last.res.wcs = AsdfOpen(last.res.wcsbuf).wcs

\* C17 for the extensions whose column of strings is ASCII or whose column
\* is of bytes.
C17_DecodeFailsSoftOnAscii ==
    (/\ last.op = "asdftablehdu_to_wcs"
     /\ (/\ last.arg.hdu.kind \in {"asciitable", "bintable"}
         /\ The(last.arg.hdu.data).kind \in {"U", "S"})
        => \A i \in 1..Len(The(last.arg.hdu.data).rows) :
              IsAscii(The(last.arg.hdu.data).rows[i])) =>
        /\ last.exc = ""
        /\ (last.arg.hdu.kind \notin {"asciitable", "bintable"} => IsNone(last.res.wcs))
        /\ (/\ last.arg.hdu.kind \in {"asciitable", "bintable"}
            /\ The(last.arg.hdu.data).column # "gWCS") => IsNone(last.res.wcs)
        /\ (/\ last.arg.hdu.kind \in {"asciitable", "bintable"}
            /\ The(last.arg.hdu.data).column = "gWCS") =>
               last.res.wcs = AsdfOpen(last.res.wcsbuf).wcs


----------------------------------------------------------------------------
(* The Reader and the Writer: read_fits and write_fits.                     *)

\* Whether a header holds FITS WCS keywords (CRVALn, CDi_j, ...).
HasWcsKeys(header) == "wcskeys" \in DOMAIN header /\ header.wcskeys

\* The transforms (gWCS objects), by what FITS keywords can say of them:
\* all of it, an approximation, or nothing.
Transforms == {"exact", "approx", "unfit"}

\* adwcs.fitswcs_to_gwcs(header): the transform the keywords describe, None
\* when the header describes none.
fitswcs_to_gwcs(header) == IF HasWcsKeys(header) THEN Some("exact") ELSE None

\* adwcs.gwcs_to_fits(ext, phu): the keywords of the transform, marked as
\* approximate when they are, or ValueError.
gwcs_to_fits(wcs) ==
    IF wcs = "unfit" THEN [exc |-> "ValueError", approximate |-> FALSE]
    ELSE [exc |-> "", approximate |-> wcs = "approx"]

\* The 'wcs' entry of the ASDF document of a transform, and the document.
WcsLine(wcs) ==
    IF wcs = "exact" THEN <<LetterW>>
    ELSE IF wcs = "approx" THEN <<LetterW, LetterW>>
    ELSE <<LetterW, Hash>>
AsdfDoc(wcs) == <<Hash, LF>> \o WcsLine(wcs) \o <<LF>>
TransformOf(line) == CHOOSE wcs \in Transforms : WcsLine(wcs) = line

\* A unit as the Reader builds it: the unit, its transform and the FITS WCS
\* keywords of its header (meta['header']).
ReadUnit(name, ver, data, unc, mask, wcs, header) ==
    [name |-> name, ver |-> ver, data |-> data, uncertainty |-> unc,
     mask |-> mask, other |-> <<>>, wcs |-> wcs, wcskeys |-> HasWcsKeys(header)]

\* The Table made of a binary table extension: its data and its header
\* (EXTVER, and EXTNAME set to the name it is appended under).
TableOf(hdu, name) == TableObj([data |-> hdu.data, ver |-> hdu.ver, name |-> name])

\* The provider being read, the exception raised and the extensions
\* discarded so far.
NewProvider ==
    [nddata |-> <<>>, tables |-> EmptyDict, provDict |-> EmptyDict,
     exposed |-> {}, exc |-> "", discarded |-> <<>>]

\* ad.append(hdu, name=name, add_to=add_to, reset_ver=False) of a raw
\* extension: an ASCII table is no recognized type (ValueError); with add_to
\* the object becomes a member of that unit; without, a binary table becomes
\* a container-level Table and an image a new unit with the version of its
\* header.
AppendHdu(st, hdu, name, add_to) ==
    IF st.exc # "" THEN st
    ELSE IF hdu.kind = "asciitable" THEN [st EXCEPT !.exc = "ValueError"]
    ELSE IF ~IsNone(add_to)
         THEN AppendAddTo(st, The(name),
                          IF hdu.kind = "bintable" THEN TableOf(hdu, The(name))
                          ELSE Obj("ndarray", The(hdu.data), hdu.data),
                          The(add_to))
    ELSE IF hdu.kind = "bintable"
         THEN AppendTable(st, The(name), TableOf(hdu, The(name)))
    ELSE [st EXCEPT !.nddata =
             Append(@, ReadUnit(The(name), The(hdu.ver), hdu.data, None, None, None, hdu))]

\* Mutant of skip_names: only the default extension is left out.
SkipDefaultOnly == {DEFAULT_EXTENSION}

skip_names == {DEFAULT_EXTENSION, "REFCAT", "MDF"}

\* unit.header.get('EXTVER', -1)
VerOf(unit) == IF IsNone(unit.ver) THEN -1 ELSE The(unit.ver)

\* header['EXTNAME'] of an extension with the version asked for raises
\* KeyError when the header has no EXTNAME.
AssociatedRaises(hl, ver) ==
    \E n \in 1..Len(hl) : VerOf(hl[n]) = ver /\ ~IsNone(hl[n].ver) /\ IsNone(hl[n].name)

\* associated_extensions(ver): the positions in hdulist, in order.
associated_extensions(hl, ver) ==
    SelectSeq([n \in 1..Len(hl) |-> n],
              LAMBDA n : /\ ~IsNone(hl[n].ver) /\ The(hl[n].ver) = ver
                         /\ ~IsNone(hl[n].name) /\ The(hl[n].name) \notin skip_names)

\* parts[...] of one name: the last associated extension of that name.
PartNamed(hl, assoc, name) ==
    LET s == SelectSeq(assoc, LAMBDA n : hl[n].name = Some(name))
    IN IF s = <<>> THEN None ELSE Some(s[Len(s)])

\* parts['other']
PartOther(hl, assoc) ==
    SelectSeq(assoc, LAMBDA n : The(hl[n].name) \notin {"DQ", "VAR", "WCS"})

\* for other in parts['other']: ad.append(other, name, add_to=nd)
RECURSIVE AppendOthers(_, _, _, _)
AppendOthers(st, hl, others, n) ==
    IF others = <<>> THEN st
    ELSE AppendOthers(AppendHdu(st, hl[others[1]], hl[others[1]].name, Some(n)),
                      hl, Tail(others), n)

\* The body of the loop over sci_units for the extension at position i.
ReadSci(st, hl, i, memmap, sep) ==
    LET unit == hl[i]
        ver == VerOf(unit)
        assoc == associated_extensions(hl, ver)
        mask == PartNamed(hl, assoc, "DQ")
        unc == PartNamed(hl, assoc, "VAR")
        wcsext == PartNamed(hl, assoc, "WCS")
        dec == IF IsNone(wcsext) THEN [wcs |-> None, exc |-> ""]
               ELSE asdftablehdu_to_wcs(hl[The(wcsext)], sep)
        fromExt == IF IsNone(dec.wcs) THEN None ELSE Some(TransformOf(The(dec.wcs)))
        n == Len(st.nddata)
        lazyWcs == IF ~IsNone(fromExt) THEN fromExt
                   ELSE IF ~IsNone(fitswcs_to_gwcs(unit)) THEN fitswcs_to_gwcs(unit)
                   ELSE fitswcs_to_gwcs(hl[1])
        eagerWcs == IF ~IsNone(wcsext) THEN fromExt ELSE fitswcs_to_gwcs(unit)
        lazy == [st EXCEPT !.nddata =
                    Append(@, ReadUnit(DEFAULT_EXTENSION, ver, unit.data,
                                       IF IsNone(unc) THEN None ELSE hl[The(unc)].data,
                                       IF IsNone(mask) THEN None ELSE hl[The(mask)].data,
                                       lazyWcs, unit))]
        e1 == AppendHdu(st, [unit EXCEPT !.ver = Some(ver)], Some(DEFAULT_EXTENSION), None)
        e2 == IF IsNone(mask) THEN e1
              ELSE AppendHdu(e1, hl[The(mask)], hl[The(mask)].name, Some(n))
        e3 == IF IsNone(unc) THEN e2
              ELSE AppendHdu(e2, hl[The(unc)], hl[The(unc)].name, Some(n))
        eager == IF e3.exc # "" THEN e3
                 ELSE [e3 EXCEPT !.nddata[n + 1].wcs = eagerWcs]
    IN IF st.exc # "" THEN st
       ELSE IF AssociatedRaises(hl, ver) THEN [st EXCEPT !.exc = "KeyError"]
       ELSE IF dec.exc # "" THEN [st EXCEPT !.exc = dec.exc]
       ELSE AppendOthers(IF memmap THEN lazy ELSE eager, hl, PartOther(hl, assoc), n)

RECURSIVE ReadSciUnits(_, _, _, _, _)
ReadSciUnits(st, hl, scis, memmap, sep) ==
    IF scis = <<>> THEN st
    ELSE ReadSciUnits(ReadSci(st, hl, scis[1], memmap, sep), hl, Tail(scis), memmap, sep)

\* sci_units: positions in hdulist[1:] of the extensions named SCI.
SciUnits(hl) ==
    SelectSeq([n \in 1..Len(hl) |-> n],
              LAMBDA n : n > 1 /\ hl[n].name = Some(DEFAULT_EXTENSION))

\* seen, once the loop over sci_units is over.
Seen(hl) ==
    {1} \cup Range(SciUnits(hl))
        \cup UNION {Range(associated_extensions(hl, VerOf(hl[i]))) : i \in Range(SciUnits(hl))}

\* The last loop of read_fits from position n on: an extension not seen is
\* appended at the top level; on ValueError the handler builds its message
\* with the extension's name, which raises TypeError when there is none.
RECURSIVE ReadLeftover(_, _, _, _)
ReadLeftover(st, hl, seen, n) ==
    IF n > Len(hl) \/ st.exc # "" THEN st
    ELSE IF n \in seen THEN ReadLeftover(st, hl, seen, n + 1)
    ELSE LET r == AppendHdu(st, hl[n], hl[n].name, None)
         IN IF r.exc = "ValueError"
            THEN IF IsNone(hl[n].name) THEN [st EXCEPT !.exc = "TypeError"]
                 ELSE ReadLeftover([st EXCEPT !.discarded = Append(@, n)], hl, seen, n + 1)
            ELSE ReadLeftover(r, hl, seen, n + 1)

\* read_fits(cls, source): the provider returned, or the exception.
read_fits(source, memmap, sep) ==
    LET hl == PrepareHdulist(source)
        st == ReadSciUnits(NewProvider, hl, SciUnits(hl), memmap, sep)
    IN ReadLeftover(st, hl, Seen(hl), 1)

\* The names of container-level tables in the order sorted() gives them.
TableNames == <<"CAT", "MDF", "REF", "REFCAT", "WCS">>

\* new_imagehdu(data, header, name): the header is a copy of the unit's.
NewImageHdu(data, ext, name) ==
    [kind |-> "image", name |-> Some(name), ver |-> Some(ext.ver), data |-> data,
     wcskeys |-> ext.wcskeys]

\* table_to_bintablehdu(table, extname)
TableToBinTableHdu(table, name) == BinTableHDU(Some(name), table.val.ver, table.val.data)

\* Mutant of WriteOthers: an object of another type is left out.
RECURSIVE WriteOthersSkipUnknown(_, _)
WriteOthersSkipUnknown(ext, others) ==
    IF others = <<>> THEN [hdul |-> <<>>, exc |-> ""]
    ELSE LET o == others[1].obj
             rest == WriteOthersSkipUnknown(ext, Tail(others))
             one == IF o.kind = "table" THEN <<TableToBinTableHdu(o, o.val.name)>>
                    ELSE IF o.kind = "ndarray"
                         THEN <<ImageHDU(Some(others[1].name), Some(ext.ver), Some(o.val))>>
                    ELSE IF o.kind = "nddata" THEN <<NewImageHdu(o.arr, ext, ext.name)>>
                    ELSE <<>>
         IN [hdul |-> one \o rest.hdul, exc |-> rest.exc]

\* The extensions of the auxiliary objects of a unit (meta['other']), or
\* ValueError for an object of another type.
RECURSIVE WriteOthers(_, _)
WriteOthers(ext, others) ==
    IF others = <<>> THEN [hdul |-> <<>>, exc |-> ""]
    ELSE LET o == others[1].obj
             rest == WriteOthers(ext, Tail(others))
             one == IF o.kind = "table" THEN <<TableToBinTableHdu(o, o.val.name)>>
                    ELSE IF o.kind = "ndarray"
                         THEN <<ImageHDU(Some(others[1].name), Some(ext.ver), Some(o.val))>>
                    ELSE <<NewImageHdu(o.arr, ext, ext.name)>>
         IN IF o.kind \notin {"table", "ndarray", "nddata"}
            THEN [hdul |-> <<>>, exc |-> "ValueError"]
            ELSE [hdul |-> one \o rest.hdul, exc |-> rest.exc]

\* The header of a unit once write_fits has looked at its transform: the
\* keywords of the transform are written into it unless gwcs_to_fits fails.
HeaderWritten(ext) ==
    IF ~IsNone(ext.wcs) /\ gwcs_to_fits(The(ext.wcs)).exc = ""
    THEN [ext EXCEPT !.wcskeys = TRUE] ELSE ext

\* Whether write_fits emits a WCS extension for the unit: it has a
\* transform that the keywords do not say exactly.
EmitsWcs(ext) ==
    /\ ~IsNone(ext.wcs)
    /\ LET f == gwcs_to_fits(The(ext.wcs)) IN f.exc # "" \/ f.approximate

\* Mutant of WriteUnit: the mask before the uncertainty.
WriteUnitMaskFirst(ext) ==
    LET hdr == HeaderWritten(ext)
        others == WriteOthers(hdr, ext.other)
    IN [hdul |-> <<NewImageHdu(ext.data, hdr, ext.name)>>
                 \o (IF IsNone(ext.mask) THEN <<>> ELSE <<NewImageHdu(ext.mask, hdr, "DQ")>>)
                 \o (IF IsNone(ext.uncertainty) THEN <<>>
                     ELSE <<NewImageHdu(ext.uncertainty, hdr, "VAR")>>)
                 \o (IF EmitsWcs(ext)
                     THEN <<wcs_to_asdftablehdu(AsdfDoc(The(ext.wcs)), Some(ext.ver)).hdu>>
                     ELSE <<>>)
                 \o others.hdul,
        exc |-> others.exc]

\* The body of the loop of write_fits over ad._nddata: the extensions of one
\* unit.
WriteUnit(ext) ==
    LET hdr == HeaderWritten(ext)
        others == WriteOthers(hdr, ext.other)
    IN [hdul |-> <<NewImageHdu(ext.data, hdr, ext.name)>>
                 \o (IF IsNone(ext.uncertainty) THEN <<>>
                     ELSE <<NewImageHdu(ext.uncertainty, hdr, "VAR")>>)
                 \o (IF IsNone(ext.mask) THEN <<>> ELSE <<NewImageHdu(ext.mask, hdr, "DQ")>>)
                 \o (IF EmitsWcs(ext)
                     THEN <<wcs_to_asdftablehdu(AsdfDoc(The(ext.wcs)), Some(ext.ver)).hdu>>
                     ELSE <<>>)
                 \o others.hdul,
        exc |-> others.exc]

RECURSIVE WriteUnits(_)
WriteUnits(units) ==
    IF units = <<>> THEN [hdul |-> <<>>, exc |-> ""]
    ELSE LET one == WriteUnit(units[1])
             rest == WriteUnits(Tail(units))
         IN [hdul |-> one.hdul \o rest.hdul,
             exc |-> IF one.exc # "" THEN one.exc ELSE rest.exc]

\* for name, table in sorted(ad._tables.items())
WriteTables(tbls) ==
    LET names == SelectSeq(TableNames, LAMBDA name : name \in DOMAIN tbls)
    IN [k \in 1..Len(names) |-> TableToBinTableHdu(tbls[names[k]], names[k])]

\* write_fits(ad, filename): the extension list written (hdul), the units
\* with their headers as the call leaves them, or the exception.
write_fits(phu, units, tbls) ==
    LET w == WriteUnits(units)
    IN [hdul |-> <<phu>> \o w.hdul \o WriteTables(tbls),
        nddata |-> [k \in 1..Len(units) |-> HeaderWritten(units[k])],
        exc |-> w.exc]

\* The extensions of the containers read, in the order a file holds them:
\* two primary arrays, planes and auxiliary extensions of version 1 behind
\* the primary array of version 2, transform extensions that decode and one
\* that does not, extensions of no unit, and ASCII tables without a name.
WcsTable(ver, wcs) ==
    TableHDU(Some("WCS"), Some(ver),
             Some(TableData("gWCS", "U", SplitLines(AsdfDoc(wcs), 1, <<>>))))

FileShapes ==
    << ImageHDU(Some("SCI"), Some(1), Some(1)) @@ [wcskeys |-> TRUE],
       ImageHDU(Some("VAR"), Some(1), Some(2)),
       ImageHDU(Some("DQ"), Some(1), Some(3)),
       ImageHDU(Some("SCI"), Some(2), Some(4)) @@ [wcskeys |-> FALSE],
       WcsTable(1, "approx"),
       BinTableHDU(Some("WCS"), Some(1), Some(TableData("OTHER", "u1", <<Hash, LF, LetterW>>))),
       ImageHDU(Some("REF"), Some(1), Some(7)),
       BinTableHDU(Some("REFCAT"), Some(1), Some(8)),
       BinTableHDU(Some("CAT"), None, Some(9)),
       ImageHDU(Some("REF"), Some(3), Some(10)),
       TableHDU(None, None, Some(11)),
       ImageHDU(None, None, Some(12)),
       TableHDU(None, Some(1), Some(13)),
       WcsTable(2, "exact"),
       WcsTable(2, "unfit") >>

\* The selections of at most MaxExts of the extensions, in file order.
RECURSIVE Selections(_, _)
Selections(n, room) ==
    IF n > Len(FileShapes) \/ room = 0 THEN {<<>>}
    ELSE Selections(n + 1, room)
         \cup {<<FileShapes[n]>> \o rest : rest \in Selections(n + 1, room - 1)}

\* The primary extension, with or without FITS WCS keywords.
Phu(wcskeys) == PrimaryHDU @@ [wcskeys |-> wcskeys]

InitReadWrite ==
    /\ InitFile
    /\ hdulist \in {<<Phu(k)>> \o exts : k \in BOOLEAN, exts \in Selections(1, MaxExts)}
                   \cup {SingleImageFile}

\* read_fits on the container held (memmap: the source is a path, its file
\* memory-mapped; otherwise an HDUList in memory), on a platform whose line
\* separator is sep.  The provider read replaces the one held; none is
\* returned when the read raises.
Read(memmap, sep) ==
    /\ last.op \in {"init", "write"}
    /\ LET r == read_fits(hdulist, memmap, sep)
           ok == r.exc = ""
       IN /\ nddata' = IF ok THEN r.nddata ELSE <<>>
          /\ tables' = IF ok THEN r.tables ELSE EmptyDict
          /\ provDict' = IF ok THEN r.provDict ELSE EmptyDict
          /\ exposed' = IF ok THEN r.exposed ELSE {}
          /\ hdulist' = NewList(hdulist).units
          /\ last' = Op("read", [memmap |-> memmap], hdulist,
                        [hdulist |-> PrepareHdulist(hdulist),
                         sci |-> LET hl == PrepareHdulist(hdulist)
                                 IN ReadSciUnits(NewProvider, hl, SciUnits(hl), memmap, sep),
                         discarded |-> r.discarded],
                        r.exc)
    /\ UNCHANGED <<proxy, store, coll, logger>>

\* write_fits of the provider read: the extension list written becomes the
\* container held; the call records how the provider was read.
Write ==
    /\ last.op = "read" /\ last.exc = ""
    /\ LET w == write_fits([hdulist[1] EXCEPT !.data = None], nddata, tables)
       IN /\ hdulist' = IF w.exc = "" THEN w.hdul ELSE hdulist
          /\ nddata' = w.nddata
          /\ last' = Op("write", last.arg, nddata, w.hdul, w.exc)
    /\ UNCHANGED <<tables, provDict, exposed, proxy, store, coll, logger>>

NextReadWrite ==
    \/ \E memmap \in BOOLEAN, sep \in LineSeps : Read(memmap, sep)
    \/ Write

SpecReadWrite == InitReadWrite /\ [][NextReadWrite]_vars

\* The units named SCI, in provider order.
SciOf(units) == SelectSeq(units, LAMBDA u : u.name = DEFAULT_EXTENSION)

\* What C12 says of the unit u read for the SCI extension at position i of
\* the prepared list hl, the extensions whose names are in skip being left
\* out: every other named extension of the same version is a member of u
\* under its name, and u has no other member.
AttachedAsC12(hl, i, u, skip) ==
    LET same == {n \in 1..Len(hl) : /\ hl[n].ver = hl[i].ver /\ ~IsNone(hl[n].name)
                                    /\ The(hl[n].name) \notin skip}
        named(name) == {n \in same : hl[n].name = Some(name)}
        aux == {n \in same : The(hl[n].name) \notin {"VAR", "DQ", "WCS"}}
        wcs == asdftablehdu_to_wcs(hl[MaxOf(named("WCS"))], <<LF>>).wcs
    IN /\ u.ver = The(hl[i].ver) /\ u.data = hl[i].data
       /\ IsNone(u.uncertainty) = (named("VAR") = {})
       /\ \A n \in named("VAR") : u.uncertainty = hl[n].data
       /\ IsNone(u.mask) = (named("DQ") = {})
       /\ \A n \in named("DQ") : u.mask = hl[n].data
       /\ (named("WCS") # {} /\ ~IsNone(wcs)) => u.wcs = Some(TransformOf(The(wcs)))
       /\ {u.other[k].name : k \in 1..Len(u.other)} = {The(hl[n].name) : n \in aux}

\* What C12 says of a read that returned: one unit per SCI extension, in
\* ascending version order, each with the extensions of its version.
ReadAsC12(hl, units, skip) ==
    LET scis == SciUnits(hl)
        read == SciOf(units)
    IN /\ Len(read) = Len(scis)
       /\ \A k \in 1..Len(scis) : AttachedAsC12(hl, scis[k], read[k], skip)
       /\ \A a, b \in 1..Len(read) : a < b => read[a].ver <= read[b].ver

C12_WitnessSkipped ==
    /\ last.op = "read" /\ last.exc = ""
    /\ Len(nddata) = 1 /\ nddata[1].ver = 1
    /\ "REFCAT" \in DOMAIN tables
    /\ tables["REFCAT"].val.ver = Some(1)

\* The extensions of the prepared list hl that the last loop of the read
\* appends (they belong to no unit) and whose append fails: ASCII tables.
FailingLeftovers(hl) ==
    {n \in 1..Len(hl) : n \notin Seen(hl) /\ hl[n].kind = "asciitable"}

\* C20: when the units were read and the append of an extension that
\* belongs to no unit fails, the read completes: the extension is discarded
\* and the provider is returned with all the units, whether the extension
\* declares a name or not.
C20_LeftoverNeverFatal ==
    (/\ last.op = "read" /\ last.res.sci.exc = ""
     /\ FailingLeftovers(last.res.hdulist) # {}) =>
        /\ last.exc = ""
        /\ Range(last.res.discarded) = FailingLeftovers(last.res.hdulist)
        /\ Len(SciOf(nddata)) = Len(SciUnits(last.res.hdulist))

\* The same for the extensions that declare a name: the failure is not
\* fatal.
C20_NamedLeftoverSkipped ==
    (/\ last.op = "read" /\ last.res.sci.exc = ""
     /\ FailingLeftovers(last.res.hdulist) # {}
     /\ \A n \in FailingLeftovers(last.res.hdulist) : ~IsNone(last.res.hdulist[n].name)) =>
        /\ last.exc = ""
        /\ Range(last.res.discarded) = FailingLeftovers(last.res.hdulist)
        /\ Len(SciOf(nddata)) = Len(SciUnits(last.res.hdulist))

\* A read that discarded a named extension and returned a unit.
C20_WitnessNamed ==
    /\ last.op = "read" /\ last.exc = ""
    /\ last.res.discarded # <<>>
    /\ Len(nddata) >= 1

\* The number of extensions C14 gives a unit, and whether its transform
\* extension is emitted (a transform that keywords do not say exactly).
EmittedAsC14(u) == ~IsNone(u.wcs) /\ u.wcs # Some("exact")
Count(b) == IF b THEN 1 ELSE 0
BlockLenAsC14(u) ==
    1 + Count(~IsNone(u.uncertainty)) + Count(~IsNone(u.mask))
      + Count(EmittedAsC14(u)) + Len(u.other)

\* What C14 says of the extensions of unit u, the first of them at position
\* pos of hdul.
BlockAsC14(hdul, pos, u) ==
    LET pU == pos + 1
        pM == pU + Count(~IsNone(u.uncertainty))
        pW == pM + Count(~IsNone(u.mask))
        pO == pW + Count(EmittedAsC14(u))
    IN /\ hdul[pos].kind = "image" /\ hdul[pos].name = Some(u.name)
       /\ hdul[pos].ver = Some(u.ver) /\ hdul[pos].data = u.data
       /\ ~IsNone(u.uncertainty) =>
            /\ hdul[pU].name = Some("VAR") /\ hdul[pU].ver = Some(u.ver)
            /\ hdul[pU].data = u.uncertainty
       /\ ~IsNone(u.mask) =>
            /\ hdul[pM].name = Some("DQ") /\ hdul[pM].ver = Some(u.ver)
            /\ hdul[pM].data = u.mask
       /\ EmittedAsC14(u) =>
            /\ hdul[pW].name = Some("WCS") /\ hdul[pW].ver = Some(u.ver)
            /\ hdul[pW].kind \in {"asciitable", "bintable"}
       /\ \A k \in 1..Len(u.other) :
            /\ hdul[pO + k - 1].name = Some(u.other[k].name)
            /\ hdul[pO + k - 1].ver = Some(u.ver)

\* What C14 says of hdul from position pos on, the units given being still
\* to come: their extensions unit by unit, then the container-level tables
\* in ascending name order, and nothing else.
RECURSIVE OrderedAsC14(_, _, _, _)
OrderedAsC14(hdul, pos, units, tbls) ==
    IF units # <<>>
    THEN /\ pos + BlockLenAsC14(units[1]) - 1 <= Len(hdul)
         /\ BlockAsC14(hdul, pos, units[1])
         /\ OrderedAsC14(hdul, pos + BlockLenAsC14(units[1]), Tail(units), tbls)
    ELSE /\ \A p \in pos..Len(hdul) : hdul[p].kind = "bintable"
         /\ {The(hdul[p].name) : p \in pos..Len(hdul)} = DOMAIN tbls
         /\ Len(hdul) - pos + 1 = Cardinality(DOMAIN tbls)
         /\ \A p, q \in pos..Len(hdul) :
              p < q => \E a, b \in 1..Len(TableNames) :
                          /\ a < b
                          /\ TableNames[a] = The(hdul[p].name)
                          /\ TableNames[b] = The(hdul[q].name)

\* C14: the extension list written starts with the primary extension; then
\* come, for each unit in provider order, its primary array, uncertainty,
\* mask, transform extension (if emitted) and auxiliary objects; then the
\* container-level tables in ascending name order; the extensions of a unit
\* are contiguous.
C14_WriteOrder ==
    (last.op = "write" /\ last.exc = "") =>
        /\ last.res[1].kind = "primary"
        /\ OrderedAsC14(last.res, 2, last.pre, tables)

\* A provider of two units was written, the first with uncertainty and
\* mask.
C14_Witness ==
    /\ last.op = "write" /\ last.exc = ""
    /\ Len(last.pre) = 2
    /\ ~IsNone(last.pre[1].uncertainty) /\ ~IsNone(last.pre[1].mask)
    /\ Len(last.res) = 5

\* A provider was written whose unit has a transform extension, an
\* auxiliary object and a container-level table behind it.
C14_WitnessTransform ==
    /\ last.op = "write" /\ last.exc = ""
    /\ Len(last.pre) = 1
    /\ EmittedAsC14(last.pre[1]) /\ Len(last.pre[1].other) = 1
    /\ DOMAIN tables # {}
    /\ Len(last.res) = 5

\* What C15 compares: the ordered (name, version) units, their primary
\* arrays, and the presence of uncertainty, mask and transform.
SameStructure(a, b) ==
    /\ Len(a) = Len(b)
    /\ \A k \in 1..Len(a) :
         /\ a[k].name = b[k].name /\ a[k].ver = b[k].ver
         /\ a[k].data = b[k].data
         /\ IsNone(a[k].uncertainty) = IsNone(b[k].uncertainty)
         /\ IsNone(a[k].mask) = IsNone(b[k].mask)
         /\ IsNone(a[k].wcs) = IsNone(b[k].wcs)

\* C15: the provider read from what was written of a provider read has the
\* same ordered (name, version) units, the same primary arrays and the same
\* presence of uncertainty, mask and transform per unit.
C15_RoundTrip ==
    [][ (last.op = "write" /\ last'.op = "read") =>
            /\ last'.exc = ""
            /\ SameStructure(last.pre, nddata') ]_vars

\* The same when both reads are of the same kind of source, memory-mapped
\* or not.
C15_RoundTripSameSource ==
    [][ (last.op = "write" /\ last'.op = "read" /\ last'.arg = last.arg) =>
            /\ last'.exc = ""
            /\ SameStructure(last.pre, nddata') ]_vars

\* The same but for the presence of the transform.
C15_RoundTripArrays ==
    [][ (last.op = "write" /\ last'.op = "read") =>
            /\ last'.exc = ""
            /\ Len(last.pre) = Len(nddata')
            /\ \A k \in 1..Len(nddata') :
                 /\ last.pre[k].name = nddata'[k].name /\ last.pre[k].ver = nddata'[k].ver
                 /\ last.pre[k].data = nddata'[k].data
                 /\ IsNone(last.pre[k].uncertainty) = IsNone(nddata'[k].uncertainty)
                 /\ IsNone(last.pre[k].mask) = IsNone(nddata'[k].mask) ]_vars

----------------------------------------------------------------------------
(* The order of the prepared extension list.                                *)

\* Two extensions of one version: the same EXTVER, or none (or -1) on both.
SameVersion(a, b) ==
    IF HasVer(a) THEN HasVer(b) /\ a.ver = b.ver ELSE ~HasVer(b)

\* What C22 says of two extensions a and b that are not primary, a standing
\* before b in the list.
OrderedAsC22(a, b) ==
    /\ ~(~HasVer(a) /\ HasVer(b))
    /\ (HasVer(a) /\ HasVer(b)) => The(a.ver) <= The(b.ver)
    /\ SameVersion(a, b) =>
         /\ ~(b.name = Some(DEFAULT_EXTENSION) /\ a.name # Some(DEFAULT_EXTENSION))
         /\ ~(IsNone(a.name) /\ ~IsNone(b.name))

\* C22: the prepared list has the primary extension first and the others
\* by (version, adjusted name): within one version SCI before every other
\* extension and an extension with no name behind every named one, whatever
\* the names are; the extensions with no version behind the versioned ones.
C22_SortOrder ==
    (last.op = "prepare" /\ IsMEF(last.pre)) =>
        /\ last.res[1].kind = "primary"
        /\ \A i, j \in 2..Len(last.res) : i < j => OrderedAsC22(last.res[i], last.res[j])

\* The same for the lists whose names Python orders before "zzz".
C22_SortOrderUsualNames ==
    (/\ last.op = "prepare" /\ IsMEF(last.pre)
     /\ \A i \in 1..Len(last.res) : last.res[i].name # Some("zzzz")) =>
        /\ last.res[1].kind = "primary"
        /\ \A i, j \in 2..Len(last.res) : i < j => OrderedAsC22(last.res[i], last.res[j])

\* A list was prepared that holds, in one version, SCI behind another name
\* in the file and an extension with no name.
C22_WitnessUsualNames ==
    /\ last.op = "prepare" /\ Len(last.res) = 4
    /\ last.pre[2].name = None /\ last.pre[2].kind = "bintable" /\ last.pre[2].ver = Some(1)
    /\ last.pre[4].name = Some(DEFAULT_EXTENSION) /\ last.pre[4].ver = Some(1)
    /\ last.res[2].name = Some(DEFAULT_EXTENSION)
    /\ last.res[4].name = None

\* The (name, version) pairs of the extensions at the positions given are
\* pairwise distinct.
DistinctPairs(hl, positions) ==
    \A i, j \in positions : i # j => <<hl[i].name, hl[i].ver>> # <<hl[j].name, hl[j].ver>>

Images(hl) == {n \in 1..Len(hl) : hl[n].kind = "image"}

\* C29: if the (name, version) pairs of the extensions that declare both
\* are pairwise distinct, then once _prepare_hdulist has given names and
\* versions to the images that lack them the (name, version) pairs of all
\* images are pairwise distinct.
C29_PreparedDistinct ==
    (/\ last.op = "prepare" /\ IsMEF(last.pre)
     /\ DistinctPairs(last.pre, Declared(last.pre))) =>
        DistinctPairs(last.res, Images(last.res))

\* The same for the lists in which no image declares a version without a
\* name.
C29_PreparedDistinctNamedVersions ==
    (/\ last.op = "prepare" /\ IsMEF(last.pre)
     /\ DistinctPairs(last.pre, Declared(last.pre))
     /\ \A n \in Images(last.pre) : HasVer(last.pre[n]) => ~IsNone(last.pre[n].name)) =>
        DistinctPairs(last.res, Images(last.res))

----------------------------------------------------------------------------
(* The two branches of the Reader.                                          *)

----------------------------------------------------------------------------
(* The chunked executor with auxiliary outputs, failures and the logger.    *)

\* A key of result.meta['other']: a name, or (name, coords) for the output
\* of one block (coords is None in a key that is a name alone).
AuxKey(name, coords) == [name |-> name, coords |-> coords]

\* An auxiliary output of the function: an NDData object or an object of
\* another type, with the array it holds.
AuxOut(kind, data) == [kind |-> kind, data |-> data]

\* What the function gives for a block as the auxiliary output of one name:
\* the window of the input, marked with the name.
AuxOf(name, kind, coords, shape) ==
    AuxOut(kind, [c \in DOMAIN WindowOf(InputArray(shape), coords, shape) |->
                     <<name, WindowOf(InputArray(shape), coords, shape)[c]>>])

\* The blocks on which the function emits auxiliary outputs.
Emitting(emits, boxes) ==
    IF emits = "all" THEN 1..Len(boxes)
    ELSE IF emits = "first" THEN {1} \cap (1..Len(boxes))
    ELSE {}

\* The part of the loop over boxes that propagates the additional
\* attributes of block k: out.meta['other'] into result.meta['other'].
RECURSIVE Propagate(_, _, _, _, _, _)
Propagate(other, names, kind, boxes, k, shape) ==
    IF names = <<>> THEN other
    ELSE Propagate(OSet(other,
                        IF Len(boxes) > 1 THEN AuxKey(names[1], Some(boxes[k]))
                        ELSE AuxKey(names[1], None),
                        AuxOf(names[1], kind, boxes[k], shape)),
                   Tail(names), kind, boxes, k, shape)

\* The loop over boxes from box k on, inside try: the data and the
\* auxiliary mapping when it ends, and the exception that ends it when the
\* function raises on a block.
RECURSIVE RunBoxes(_, _, _, _, _)
RunBoxes(call, boxes, k, data, other) ==
    IF k > Len(boxes) THEN [data |-> data, other |-> other, exc |-> ""]
    ELSE IF call.raisesAt = k THEN [data |-> data, other |-> other, exc |-> "RuntimeError"]
    ELSE RunBoxes(call, boxes, k + 1,
                  SetSection(data, boxes[k], call.shape,
                             Identity(WindowOf(InputArray(call.shape), boxes[k], call.shape))),
                  IF k \in Emitting(call.emits, boxes)
                  THEN Propagate(other, call.names, call.kind, boxes, k, call.shape)
                  ELSE other)

\* Mutant of GatherWrite: the key of the block stays in the mapping.
GatherWriteKeepKey(whole, key, shape, obj) ==
    OSet(whole, AuxKey(key.name, None),
         AuxOut("nddata", SetSection(OGet(whole, AuxKey(key.name, None)).data,
                                     The(key.coords), shape, obj.data)))

\* other[name].set_section(section, obj) and del other[name, coords], the
\* array of the name being in the mapping (whole).
GatherWrite(whole, key, shape, obj) ==
    ODel(OSet(whole, AuxKey(key.name, None),
              AuxOut("nddata", SetSection(OGet(whole, AuxKey(key.name, None)).data,
                                          The(key.coords), shape, obj.data))),
         key)

\* if name not in other: other[name] = NDDataObject(np.empty(shape))
GatherCreate(other, name, shape) ==
    IF OHas(other, AuxKey(name, None)) THEN other
    ELSE OSet(other, AuxKey(name, None),
              AuxOut("nddata", [c \in Cells(shape) |-> Uninitialized]))

\* The gathering of the per-block outputs, entry by entry of
\* list(other.items()): the array of the name is created when missing, the
\* block is written at its section, the key of the block is deleted;
\* ValueError for an output that is no NDData.
RECURSIVE Gather(_, _, _)
Gather(other, items, shape) ==
    IF items = <<>> THEN [other |-> other, exc |-> ""]
    ELSE IF items[1].obj.kind # "nddata" THEN [other |-> other, exc |-> "ValueError"]
    ELSE Gather(GatherWrite(GatherCreate(other, items[1].name.name, shape),
                            items[1].name, shape, items[1].obj),
                Tail(items), shape)

\* The end of windowedOp: other[name] = other[name].data and a header
\* naming each.
Finish(other) ==
    [other |-> [k \in 1..Len(other) |-> [name |-> other[k].name, obj |-> other[k].obj.data]],
     other_header |-> [k \in 1..Len(other) |->
                          [name |-> other[k].name, obj |-> [EXTNAME |-> other[k].name.name]]]]

\* What windowedOp returns when the call gets no further than the boxes.
NoResult(boxes, running, exc, log) ==
    [boxes |-> boxes, data |-> None, running |-> running, other |-> <<>>,
     other_header |-> <<>>, exc |-> exc, logger |-> log]

\* windowedOp once the per-block outputs are gathered.
AfterGather(boxes, run, gathered, log) ==
    IF gathered.exc # "" THEN NoResult(boxes, run.other, gathered.exc, log)
    ELSE [boxes |-> boxes, data |-> Some(run.data), running |-> run.other,
          other |-> Finish(gathered.other).other,
          other_header |-> Finish(gathered.other).other_header,
          exc |-> "", logger |-> log]

\* windowedOp once the loop over the boxes is left, the logger's level being
\* reset by the finally clause.
AfterRun(shape, boxes, run, log) ==
    IF run.exc # "" THEN NoResult(boxes, <<>>, run.exc, log)
    ELSE AfterGather(boxes, run,
                     IF Len(boxes) > 1 THEN Gather(run.other, run.other, shape)
                     ELSE [other |-> run.other, exc |-> ""],
                     log)

\* windowedOp from the boxes on.
WithBoxes(call, boxes, log) ==
    AfterRun(call.shape, boxes,
             RunBoxes(call, boxes, 1, [c \in Cells(call.shape) |-> Uninitialized], <<>>),
             log)

\* windowedOp(func, sequence, kernel) on arrays of the shape given (agree:
\* the elements of the sequence have one shape), with a function that gives
\* the window of the first array, emits auxiliary outputs of the names and
\* kind given on the blocks given, and raises on block raisesAt (0: never).
\* The result, the auxiliary mapping as the loop leaves it (running), the
\* exception, and the logger as the call leaves it: its level is set to
\* WARNING before the boxes are made, and to the configured level when the
\* loop is left.
windowedOp(call, log) ==
    IF ~call.agree
    THEN NoResult(<<>>, <<>>, "ValueError", log)
    ELSE IF Len(call.kernel) # Len(call.shape)
    THEN NoResult(<<>>, <<>>, "AssertionError", [log EXCEPT !.level = "WARNING"])
    ELSE WithBoxes(call, generate_boxes(call.shape, call.kernel),
                   [log EXCEPT !.level = log.conf])

\* The calls: arrays of two columns, kernels of two axes and of one, functions
\* that emit nothing, on every block or on the first only, one or two
\* names, NDData or plain arrays, and that raise on the first or second
\* block or never.
Calls ==
    [shape : (0..MaxAxis) \X {2},
     kernel : ((1..MaxStep) \X {1, 2}) \cup {<<step>> : step \in 1..MaxStep},
     agree : BOOLEAN,
     emits : {"none", "all", "first"},
     names : {<<"A">>, <<"A", "B">>},
     kind : {"nddata", "ndarray"},
     raisesAt : 0..2]

LogLevels == {"DEBUG", "INFO", "ERROR"}

InitExecutor ==
    /\ nddata = <<>>
    /\ tables = EmptyDict
    /\ provDict = EmptyDict
    /\ exposed = {}
    /\ proxy = NoProxy
    /\ store = <<>>
    /\ coll = <<>>
    /\ hdulist = <<>>
    /\ logger \in {Logger(level, conf) : level \in LogLevels, conf \in {"INFO", "DEBUG"}}
    /\ last = NoOp

\* One call of windowedOp: the logger is astropy's, shared with the caller.
Execute(call) ==
    /\ last.op = "init"
    /\ LET r == windowedOp(call, logger)
       IN /\ logger' = r.logger
          /\ last' = Op("windowedOp", call, [logger |-> logger, running |-> r.running],
                        [boxes |-> r.boxes, data |-> r.data, other |-> r.other,
                         other_header |-> r.other_header],
                        r.exc)
    /\ UNCHANGED <<nddata, tables, provDict, exposed, proxy, store, coll, hdulist>>

NextExecutor == \E call \in Calls : Execute(call)

SpecExecutor == InitExecutor /\ [][NextExecutor]_vars


\* The call of windowedOp that the state records, when it returned.
Returned == last.op = "windowedOp" /\ last.exc = ""

\* While running, the outputs are keyed per block: by (name, coords) of a
\* box when there are several boxes, by the name alone otherwise.
RunningAsC24 ==
    \A k \in 1..Len(last.pre.running) :
        IF Len(last.res.boxes) > 1
        THEN /\ last.pre.running[k].name.coords # None
             /\ \E b \in 1..Len(last.res.boxes) :
                    last.res.boxes[b] = The(last.pre.running[k].name.coords)
        ELSE last.pre.running[k].name.coords = None

\* With several boxes, the output of each block is in its window of the
\* array of its name, which has the full shape.
StitchedAsC24 ==
    Len(last.res.boxes) > 1 =>
        \A k \in 1..Len(last.pre.running) :
            LET key == last.pre.running[k].name
                out == last.pre.running[k].obj.data
                name == AuxKey(key.name, None)
            IN /\ OHas(last.res.other, name)
               /\ DOMAIN OGet(last.res.other, name) = Cells(last.arg.shape)
               /\ \A c \in DOMAIN out :
                      OGet(last.res.other, name)[<<c[1] + The(key.coords)[1][1],
                                                   c[2] + The(key.coords)[2][1]>>] = out[c]

\* With one box at most, the output of the block is the result's.
AsIsAsC24 ==
    Len(last.res.boxes) <= 1 =>
        /\ Len(last.res.other) = Len(last.pre.running)
        /\ \A k \in 1..Len(last.pre.running) :
               /\ last.res.other[k].name = last.pre.running[k].name
               /\ last.res.other[k].obj = last.pre.running[k].obj.data

\* The result's mapping is keyed by name only, by the names emitted, each
\* once, and other_header names each.
ByNameAsC24 ==
    /\ \A k \in 1..Len(last.res.other) :
           /\ last.res.other[k].name.coords = None
           /\ \E j \in 1..Len(last.pre.running) :
                  last.pre.running[j].name.name = last.res.other[k].name.name
           /\ \A j \in 1..Len(last.res.other) :
                  last.res.other[j].name = last.res.other[k].name => j = k
    /\ Len(last.res.other_header) = Len(last.res.other)
    /\ \A k \in 1..Len(last.res.other) :
           /\ OHas(last.res.other_header, last.res.other[k].name)
           /\ OGet(last.res.other_header, last.res.other[k].name)
                  = [EXTNAME |-> last.res.other[k].name.name]

C24_WitnessOneBlock ==
    /\ Returned
    /\ Len(last.res.boxes) = 1
    /\ Len(last.res.other) = 2

\* C28: windowedOp leaves the logger at the level it had before the call,
\* however the call ends.
C28_LoggerRestored ==
    last.op = "windowedOp" => logger.level = last.pre.logger.level

\* C28 as the code has it: when the kernel has the dimensions of the shape,
\* the call leaves the logger at the configured level, returning or raising;
\* the level it had before the call is the level it leaves when the two
\* were the same.
C28_LoggerResetToConfigured ==
    (last.op = "windowedOp" /\ last.arg.agree /\ Len(last.arg.kernel) = Len(last.arg.shape))
        => logger.level = logger.conf

\* Witness of the reset: the function raised on a block.
C28_WitnessRaised ==
    /\ last.op = "windowedOp" /\ last.exc = "RuntimeError"
    /\ last.pre.logger.level = logger.level


----------------------------------------------------------------------------
(* The Writer on providers built in memory: units with auxiliary objects    *)
(* of every type.                                                          *)

\* The names of the auxiliary objects of a unit.
OtherNames == <<"CAT", "OBJMASK">>

\* The auxiliary object of a name on the unit of a version, by its type: a
\* Table whose header holds the name and the version, an array, an NDData
\* object, or a plain value.
OtherOf(kind, name, ver) ==
    IF kind = "table"
    THEN TableObj([data |-> Some(TableData("x", "u1", <<ver>>)), ver |-> Some(ver),
                   name |-> name])
    ELSE IF kind = "ndarray" THEN ArrayObj(ver, ver)
    ELSE IF kind = "nddata" THEN NDObj(ver, ver)
    ELSE ValueObj(ver)

OtherKinds == {"none", "table", "ndarray", "nddata", "value"}

\* meta['other'] of the unit of a version: per name, no object or one of a
\* type.
OthersOf(kinds, ver) ==
    LET names == SelectSeq(OtherNames, LAMBDA name : kinds[name] # "none")
    IN [k \in 1..Len(names) |->
           [name |-> names[k], obj |-> OtherOf(kinds[names[k]], names[k], ver)]]

\* A unit of a provider: the primary array of a version, with or without
\* uncertainty and transform, with its auxiliary objects.
UnitOf(ver, unc, wcs, kinds) ==
    [ReadUnit(DEFAULT_EXTENSION, ver, Some(ver), unc, None, wcs,
              ImageHDU(Some(DEFAULT_EXTENSION), Some(ver), Some(ver)))
        EXCEPT !.other = OthersOf(kinds, ver)]

\* The providers written: one unit, or two of versions 1 and 2, and one
\* container-level table.
UnitsOf(ver, uncs) ==
    {UnitOf(ver, unc, wcs, kinds) :
        unc \in uncs, wcs \in {None} \cup {Some(t) : t \in Transforms},
        kinds \in [Range(OtherNames) -> OtherKinds]}

Providers ==
    {<<u>> : u \in UnitsOf(1, {None, Some(10)})}
    \cup {<<u, v>> : u \in UnitsOf(1, {None}), v \in UnitsOf(2, {None})}

InitWrite ==
    /\ nddata \in Providers
    /\ tables = DictSet(EmptyDict, "REFCAT",
                        TableObj([data |-> Some(TableData("x", "u1", <<0>>)),
                                  ver |-> Some(1), name |-> "REFCAT"]))
    /\ provDict = EmptyDict
    /\ exposed = {}
    /\ proxy = NoProxy
    /\ store = <<>>
    /\ coll = <<>>
    /\ hdulist = <<>>
    /\ logger = DefaultLogger
    /\ last = NoOp

\* write_fits(ad, filename) on a target that holds nothing: hdul.writeto is
\* the last statement, reached when no conversion raised.
WriteFits ==
    /\ last.op = "init"
    /\ LET w == write_fits(Phu(FALSE), nddata, tables)
       IN /\ hdulist' = IF w.exc = "" THEN w.hdul ELSE hdulist
          /\ nddata' = w.nddata
          /\ last' = Op("write_fits", None, nddata, w.hdul, w.exc)
    /\ UNCHANGED <<tables, provDict, exposed, proxy, store, coll, logger>>

NextWrite == WriteFits

SpecWrite == InitWrite /\ [][NextWrite]_vars

\* The auxiliary objects of the units written, as (unit, entry).
OthersWritten ==
    {<<u, k>> : u \in 1..Len(last.pre), k \in 1..MaxRecs} \cap
    UNION {{<<u, k>> : k \in 1..Len(last.pre[u].other)} : u \in 1..Len(last.pre)}

\* The conversions of write_fits that fail: an auxiliary object of a type
\* it does not know, and a transform that has no FITS keywords.
UnknownOthers ==
    {p \in OthersWritten :
        last.pre[p[1]].other[p[2]].obj.kind \notin {"table", "ndarray", "nddata"}}

UnfitTransforms ==
    {u \in 1..Len(last.pre) :
        ~IsNone(last.pre[u].wcs) /\ gwcs_to_fits(The(last.pre[u].wcs)).exc # ""}

C21_WitnessAbsorbed ==
    /\ last.op = "write_fits" /\ last.exc = ""
    /\ UnfitTransforms # {}
    /\ hdulist # <<>>


\* The provider written is one the claim speaks of: the versions of its
\* units are pairwise distinct, and so are the names of the auxiliary
\* objects of each unit, which are no name the Writer gives itself.
DistinctAsC30 ==
    /\ \A u, v \in 1..Len(last.pre) : last.pre[u].ver = last.pre[v].ver => u = v
    /\ \A u \in 1..Len(last.pre) :
           \A j, k \in 1..Len(last.pre[u].other) :
               /\ last.pre[u].other[j].name = last.pre[u].other[k].name => j = k
               /\ last.pre[u].other[j].name \notin {DEFAULT_EXTENSION, "VAR", "DQ", "WCS"}
                                                  \cup DOMAIN tables

\* C30: the extension list written for a provider whose units have
\* pairwise distinct versions and whose auxiliary objects have distinct
\* names holds no two extensions of the same (name, version).
C30_WrittenDistinct ==
    (last.op = "write_fits" /\ last.exc = "" /\ DistinctAsC30)
        => DistinctPairs(hdulist, 1..Len(hdulist))

\* C30 as the code has it: the pairs are distinct when no auxiliary object
\* is an NDData object.
C30_WrittenDistinctArraysAndTables ==
    (/\ last.op = "write_fits" /\ last.exc = "" /\ DistinctAsC30
     /\ \A p \in OthersWritten : last.pre[p[1]].other[p[2]].obj.kind # "nddata")
        => DistinctPairs(hdulist, 1..Len(hdulist))

\* Witness: two units, each with a table and an array, written.
C30_WitnessArraysAndTables ==
    /\ last.op = "write_fits" /\ last.exc = "" /\ DistinctAsC30
    /\ Len(last.pre) = 2
    /\ \A u \in 1..2 :
           /\ Len(last.pre[u].other) = 2
           /\ last.pre[u].other[1].obj.kind = "table"
           /\ last.pre[u].other[2].obj.kind = "ndarray"


\* What C23 says of the transform of the unit u read for the SCI extension
\* at position i of the prepared list hl: the transform of the WCS
\* extension of its version when there is one that decodes; without WCS
\* extension the transform of its own header, else of the primary header.
TransformAsC23(hl, i, u) ==
    LET exts == {n \in 1..Len(hl) : hl[n].ver = hl[i].ver /\ hl[n].name = Some("WCS")}
        wcs == asdftablehdu_to_wcs(hl[MaxOf(exts)], <<LF>>).wcs
    IN /\ (exts # {} /\ ~IsNone(wcs)) => u.wcs = Some(TransformOf(The(wcs)))
       /\ exts = {} =>
              u.wcs = (IF ~IsNone(fitswcs_to_gwcs(hl[i])) THEN fitswcs_to_gwcs(hl[i])
                       ELSE fitswcs_to_gwcs(hl[1]))

\* The same of every unit of a read that returned.
ReadAsC23 ==
    LET scis == SciUnits(last.res.hdulist)
        read == SciOf(nddata)
    IN /\ Len(read) = Len(scis)
       /\ \A k \in 1..Len(scis) : TransformAsC23(last.res.hdulist, scis[k], read[k])

\* C23: on the lazy and on the eager path, the transform of every unit read
\* is the one of its WCS extension if present, else the one derived from its
\* own header, else the one derived from the primary header.
C23_TransformFallback ==
    (last.op = "read" /\ last.exc = "") => ReadAsC23

\* C23 as the code has it: the lazy path (a memory-mapped source) falls back
\* as the claim says.
C23_TransformFallbackLazy ==
    (last.op = "read" /\ last.exc = "" /\ last.arg.memmap) => ReadAsC23

\* Witness of the lazy fallback to the primary header: a unit without WCS
\* extension and without keywords got the transform of the primary header.
C23_WitnessLazyPrimary ==
    /\ last.op = "read" /\ last.exc = "" /\ last.arg.memmap
    /\ HasWcsKeys(last.res.hdulist[1])
    /\ \E k \in 1..Len(nddata) :
           /\ nddata[k].name = DEFAULT_EXTENSION
           /\ ~nddata[k].wcskeys
           /\ nddata[k].wcs = Some("exact")


\* The units a view designates in a unit sequence, in the order its
\* iteration yields them: the unit at each index of its list, None for an
\* index past the end (the access raises IndexError).
Designated(p, units) ==
    [k \in 1..Len(p.mapping) |->
        IF p.mapping[k] < Len(units) THEN Some(units[p.mapping[k] + 1]) ELSE None]

\* The provider deletes a unit that the view made before does not reference,
\* every index of the view being in range.
DeletesUnreferenced ==
    /\ last'.op = "delitem" /\ Len(nddata') = Len(nddata) - 1
    /\ proxy.live /\ proxy' = proxy
    /\ \A k \in 1..Len(proxy.mapping) :
           proxy.mapping[k] < Len(nddata) /\ proxy.mapping[k] # last'.arg

\* C26: after the provider deletes a unit that a view does not reference,
\* the view designates the units it designated before.
C26_ProxyKeepsUnits ==
    [][DeletesUnreferenced => Designated(proxy', nddata') = Designated(proxy, nddata)]_vars

\* C26 as the code has it: the view designates the same units when the unit
\* deleted lies behind every unit it references.
C26_ProxyKeepsUnitsBefore ==
    [][(DeletesUnreferenced /\ \A k \in 1..Len(proxy.mapping) : proxy.mapping[k] < last'.arg)
          => Designated(proxy', nddata') = Designated(proxy, nddata)]_vars

\* Witness: a unit behind the only unit of a view was deleted.
C26_WitnessBefore ==
    /\ last.op = "delitem" /\ proxy.live
    /\ Len(proxy.mapping) = 1
    /\ proxy.mapping[1] < last.arg
    /\ Designated(proxy, nddata) = Designated(proxy, last.pre)


----------------------------------------------------------------------------
(* Attribute lookup through a view on a provider whose units have alias     *)
(* names.                                                                  *)

\* The names units are appended under: the default one and two aliases.
AliasNames == <<DEFAULT_EXTENSION, "REF", "CAT">>

\* The provider after append(array, name=names[k]) for each k: every unit
\* gets the next version of its name.
Appended(names) ==
    [k \in 1..Len(names) |->
        Unit(names[k], Cardinality({j \in 1..k : names[j] = names[k]}), UnitArray,
             None, None, <<>>)]

InitAlias ==
    /\ nddata \in {Appended(names) : names \in [1..MaxUnits -> Range(AliasNames)]}
    /\ InitCommon

NextAlias ==
    \/ \E slc \in {IntSel(i) : i \in 0..(MaxUnits - 1)} \cup {SliceSel(None, Some(2), None)} :
           ProviderGetItem(slc)
    \/ \E a \in AttrNames : ProxyGetAttr(a)

SpecAlias == InitAlias /\ [][NextAlias]_vars

\* C27: an attribute lookup through a view never gives a unit that is not
\* in the view's index list.
C27_NoUnitOutsideView ==
    (last.op = "proxy_getattr" /\ last.exc = "" /\ last.res.src = "unit")
        => \E k \in 1..Len(proxy.mapping) : proxy.mapping[k] = last.res.obj

\* C27 as the code has it: when a unit of the view has the name as its
\* alias, the lookup gives the first such unit of the view.
C27_ReferencedAliasFirst ==
    (/\ last.op = "proxy_getattr"
     /\ \E k \in 1..Len(proxy.mapping) : UnitAt(proxy.mapping[k]).name = last.arg.name)
        => /\ last.exc = "" /\ last.res.src = "unit"
           /\ \E k \in 1..Len(proxy.mapping) :
                  /\ proxy.mapping[k] = last.res.obj
                  /\ UnitAt(last.res.obj).name = last.arg.name
                  /\ \A j \in 1..(k - 1) : UnitAt(proxy.mapping[j]).name # last.arg.name

\* Witness: a view of two units gave its second unit for the alias.
C27_WitnessReferenced ==
    /\ last.op = "proxy_getattr" /\ last.exc = "" /\ last.res.src = "unit"
    /\ Len(proxy.mapping) = 2
    /\ last.res.obj = proxy.mapping[2]

============================================================================
